---------------------------- MODULE Spec2Model ----------------------------
(***************************************************************************)
(* A model of boost::compute::command_queue                                *)
(* (include/boost/compute/command_queue.hpp).                              *)
(*                                                                         *)
(* The OpenCL runtime is the environment: it owns the native queues, keeps *)
(* their reference counts, answers info queries and returns a status for   *)
(* every enqueue call.  The wrapper objects are the program.               *)
(***************************************************************************)
EXTENDS Integers, Sequences, FiniteSets, TLC

(***************************************************************************)
(* Bounds of the model.                                                    *)
(***************************************************************************)
NObj == 2          \* command_queue objects (storage slots) of the handle model
NQueue == 2        \* native queues handed to the handle model
NCtx == 2          \* contexts of the backend
MaxBuf == 2        \* largest buffer size, offset and size tried
MaxCmds == 2       \* commands the backend accepts in one run of the enqueue model
NThreads == 2      \* threads that call get_version on one object at once

(***************************************************************************)
(* The backend's world.  Devices report the numeric versions 1.0, 1.1, 1.2 *)
(* and 2.0 (major * 100 + minor); there is one native queue per            *)
(* (context, device) pair.                                                 *)
(***************************************************************************)
Versions == <<100, 110, 120, 200>>
NDev == Len(Versions)
Devices == 1..NDev
Contexts == 1..NCtx
AllQueues == 1..(NCtx * NDev)
QueueDevice(q) == ((q - 1) % NDev) + 1
QueueContext(q) == ((q - 1) \div NDev) + 1
QueueOf(ctx, dev) == (ctx - 1) * NDev + dev
DeviceVersion(dev) == Versions[dev]

CL_SUCCESS == 0
CL_INVALID_DEVICE == -33
\* statuses a backend call can return (-5 is CL_OUT_OF_RESOURCES)
Status == {CL_SUCCESS, -5, CL_INVALID_DEVICE}

Obj == 1..NObj

VARIABLES
    live,       \* live[o]: object o has been constructed and not destroyed
    m_queue,    \* m_queue[o]: the native id o holds, 0 for a null queue
    m_version,  \* m_version[o]: the cached version, 0 for unknown
    refs,       \* refs[q]: references the wrappers hold on native queue q
                \* (clRetainCommandQueue calls plus adopted and factory
                \* references, minus clReleaseCommandQueue calls)
    pending,    \* commands submitted to the backend and not yet complete
    nsub,       \* commands submitted so far
    last,       \* the most recent call: its arguments, the state it found,
                \* the backend calls it made and what it returned
    memory,     \* the buffers of the backend: context and bytes of each
    queued,     \* what each submitted command does to the buffers, by id
    trace,      \* the data the caller has seen: what each read returned,
                \* and the copies and clones in between
    walk,       \* the call of enqueue_walk_image: where it stands, its
                \* arguments, what the map gave it, the calls of the
                \* per-element function
    threads     \* threads[t]: where thread t stands in its call of
                \* get_version, the value it read, queried and returned

vars == <<live, m_queue, m_version, refs, pending, nsub, last, memory, queued, trace, walk,
          threads>>

NoCall == [kind |-> "none"]

NoWalk == [pc |-> "idle"]

Threads == 1..NThreads

\* a thread that has not entered get_version
NoThread == [pc |-> "start", seen |-> 0, version |-> 0, wrote |-> FALSE,
             queries |-> 0, ret |-> 0]

Init ==
    /\ live = [o \in Obj |-> FALSE]
    /\ m_queue = [o \in Obj |-> 0]
    /\ m_version = [o \in Obj |-> 0]
    /\ refs = [q \in AllQueues |-> 0]
    /\ pending = <<>>
    /\ nsub = 0
    /\ last = NoCall
    /\ memory = <<>>
    /\ queued = <<>>
    /\ trace = <<>>
    /\ walk = NoWalk
    /\ threads = [t \in Threads |-> NoThread]

(***************************************************************************)
(* Reference counting calls of the backend.                                *)
(***************************************************************************)
clRetainCommandQueue(r, q) == [r EXCEPT ![q] = @ + 1]
clReleaseCommandQueue(r, q) == [r EXCEPT ![q] = @ - 1]

Retain(q) == [f |-> "retain", q |-> q]
Release(q) == [f |-> "release", q |-> q]

RECURSIVE ApplyCalls(_, _)
ApplyCalls(r, calls) ==
    IF calls = <<>> THEN r
    ELSE LET c == Head(calls)
             r1 == IF c.f = "retain" THEN clRetainCommandQueue(r, c.q)
                   ELSE clReleaseCommandQueue(r, c.q)
         IN ApplyCalls(r1, Tail(calls))

Holders(q) == {o \in Obj : live[o] /\ m_queue[o] = q}

\* The record of a lifecycle call on object o (with source p, 0 for none).
HandleCall(op, o, p, arg, retain, calls) ==
    [kind |-> "handle", op |-> op, self |-> o, other |-> p, arg |-> arg,
     retain |-> retain,
     pre_live |-> live[o],
     pre_queue |-> m_queue[o], pre_version |-> m_version[o],
     src_queue |-> IF p = 0 THEN 0 ELSE m_queue[p],
     src_version |-> IF p = 0 THEN 0 ELSE m_version[p],
     calls |-> calls,
     orphan |-> \E i \in 1..Len(calls) :
                    calls[i].f = "release" /\ Holders(calls[i].q) = {}]

\* the operations that leave the buffers alone
DataFrame == UNCHANGED <<memory, queued, trace, walk, threads>>

HandleFrame == UNCHANGED <<pending, nsub>> /\ DataFrame

(***************************************************************************)
(* command_queue(): a null queue.                                          *)
(***************************************************************************)
command_queue_null(o) ==
    /\ ~live[o]
    /\ live' = [live EXCEPT ![o] = TRUE]
    /\ m_queue' = [m_queue EXCEPT ![o] = 0]
    /\ m_version' = [m_version EXCEPT ![o] = 0]
    /\ refs' = refs
    /\ last' = HandleCall("ctor_null", o, 0, 0, FALSE, <<>>)
    /\ HandleFrame

(***************************************************************************)
(* command_queue(cl_command_queue queue, bool retain = true).  With        *)
(* retain = false the caller's own reference passes to the object.         *)
(***************************************************************************)
RawCalls_alwaysRetain(queue, retain) ==
    IF queue # 0 THEN <<Retain(queue)>> ELSE <<>>

RawCalls(queue, retain) ==
    IF queue # 0 /\ retain THEN <<Retain(queue)>> ELSE <<>>

command_queue_raw(o, queue, retain) ==
    /\ ~live[o]
    /\ live' = [live EXCEPT ![o] = TRUE]
    /\ m_queue' = [m_queue EXCEPT ![o] = queue]
    /\ m_version' = [m_version EXCEPT ![o] = 0]
    /\ LET calls == RawCalls(queue, retain)
           adopted == IF queue # 0 /\ ~retain
                      THEN [refs EXCEPT ![queue] = @ + 1] ELSE refs
       IN /\ refs' = ApplyCalls(adopted, calls)
          /\ last' = HandleCall("ctor_raw", o, 0, queue, retain, calls)
    /\ HandleFrame

(***************************************************************************)
(* command_queue(const context&, const device&, properties).  The device   *)
(* is a valid one (BOOST_ASSERT(device.id() != 0)).  m_version is taken    *)
(* from the device, the creation call is chosen by it, and a creation that *)
(* returns no queue throws opencl_error(error): no object comes to exist.  *)
(***************************************************************************)
CreateApi(version) ==
    IF version >= 200 THEN "clCreateCommandQueueWithProperties"
    ELSE "clCreateCommandQueue"

command_queue_ctx(o, context, device, created, error) ==
    /\ ~live[o]
    /\ created <=> (error = CL_SUCCESS)
    /\ LET version == DeviceVersion(device)
           queue == IF created THEN QueueOf(context, device) ELSE 0
       IN /\ live' = [live EXCEPT ![o] = created]
          /\ m_queue' = [m_queue EXCEPT ![o] = queue]
          /\ m_version' = [m_version EXCEPT ![o] = IF created THEN version ELSE 0]
          /\ refs' = IF created THEN [refs EXCEPT ![queue] = @ + 1] ELSE refs
          /\ last' = [kind |-> "create", op |-> "ctor_ctx", self |-> o,
                      context |-> context, device |-> device,
                      api |-> CreateApi(version), queue |-> queue,
                      threw |-> ~created, code |-> error, calls |-> <<>>]
    /\ HandleFrame

(***************************************************************************)
(* command_queue(const command_queue &other)                               *)
(***************************************************************************)
CopyCtorCalls(other_queue) ==
    IF other_queue # 0 THEN <<Retain(other_queue)>> ELSE <<>>

\* a copy that takes the handle away from its source
command_queue_copy_stealing(o, p) ==
    /\ ~live[o] /\ live[p]
    /\ live' = [live EXCEPT ![o] = TRUE]
    /\ m_queue' = [m_queue EXCEPT ![o] = m_queue[p], ![p] = 0]
    /\ m_version' = [m_version EXCEPT ![o] = m_version[p]]
    /\ refs' = refs
    /\ last' = HandleCall("ctor_copy", o, p, 0, FALSE, <<>>)
    /\ HandleFrame

command_queue_copy(o, p) ==
    /\ ~live[o] /\ live[p]
    /\ live' = [live EXCEPT ![o] = TRUE]
    /\ m_queue' = [m_queue EXCEPT ![o] = m_queue[p]]
    /\ m_version' = [m_version EXCEPT ![o] = m_version[p]]
    /\ LET calls == CopyCtorCalls(m_queue[p])
       IN /\ refs' = ApplyCalls(refs, calls)
          /\ last' = HandleCall("ctor_copy", o, p, 0, FALSE, calls)
    /\ HandleFrame

(***************************************************************************)
(* operator=(const command_queue &other)                                   *)
(***************************************************************************)
CopyAssignCalls_noSelfTest(same, this_queue, other_queue) ==
    (IF this_queue # 0 THEN <<Release(this_queue)>> ELSE <<>>)
    \o (IF other_queue # 0 THEN <<Retain(other_queue)>> ELSE <<>>)

CopyAssignCalls(same, this_queue, other_queue) ==
    IF same THEN <<>>
    ELSE (IF this_queue # 0 THEN <<Release(this_queue)>> ELSE <<>>)
         \o (IF other_queue # 0 THEN <<Retain(other_queue)>> ELSE <<>>)

copy_assign(o, p) ==
    /\ live[o] /\ live[p]
    /\ live' = live
    /\ m_queue' = IF o = p THEN m_queue
                  ELSE [m_queue EXCEPT ![o] = m_queue[p]]
    /\ m_version' = IF o = p THEN m_version
                    ELSE [m_version EXCEPT ![o] = m_version[p]]
    /\ LET calls == CopyAssignCalls(o = p, m_queue[o], m_queue[p])
       IN /\ refs' = ApplyCalls(refs, calls)
          /\ last' = HandleCall("copy_assign", o, p, 0, FALSE, calls)
    /\ HandleFrame

(***************************************************************************)
(* command_queue(command_queue&& other)                                    *)
(***************************************************************************)
command_queue_move(o, p) ==
    /\ ~live[o] /\ live[p]
    /\ live' = [live EXCEPT ![o] = TRUE]
    /\ m_queue' = [m_queue EXCEPT ![o] = m_queue[p], ![p] = 0]
    /\ m_version' = [m_version EXCEPT ![o] = m_version[p], ![p] = 0]
    /\ refs' = refs
    /\ last' = HandleCall("ctor_move", o, p, 0, FALSE, <<>>)
    /\ HandleFrame

(***************************************************************************)
(* operator=(command_queue&& other): no test for this == &other, and       *)
(* other.m_version is left as it was.  The assignments run in the code's   *)
(* order, so that o = p is the code's behaviour on a self-move.            *)
(***************************************************************************)
MoveAssignCalls(this_queue) ==
    IF this_queue # 0 THEN <<Release(this_queue)>> ELSE <<>>

move_assign(o, p) ==
    /\ live[o] /\ live[p]
    /\ live' = live
    /\ LET q1 == [m_queue EXCEPT ![o] = m_queue[p]]     \* m_queue = other.m_queue
           q2 == [q1 EXCEPT ![p] = 0]                   \* other.m_queue = 0
       IN m_queue' = q2
    /\ m_version' = [m_version EXCEPT ![o] = m_version[p]]
    /\ LET calls == MoveAssignCalls(m_queue[o])
       IN /\ refs' = ApplyCalls(refs, calls)
          /\ last' = HandleCall("move_assign", o, p, 0, FALSE, calls)
    /\ HandleFrame

(***************************************************************************)
(* ~command_queue()                                                        *)
(***************************************************************************)
DestroyCalls_leak(this_queue) == <<>>

DestroyCalls(this_queue) ==
    IF this_queue # 0 THEN <<Release(this_queue)>> ELSE <<>>

destroy(o) ==
    /\ live[o]
    /\ live' = [live EXCEPT ![o] = FALSE]
    /\ m_queue' = [m_queue EXCEPT ![o] = 0]
    /\ m_version' = [m_version EXCEPT ![o] = 0]
    /\ LET calls == DestroyCalls(m_queue[o])
       IN /\ refs' = ApplyCalls(refs, calls)
          /\ last' = HandleCall("destroy", o, 0, 0, FALSE, calls)
    /\ HandleFrame

(***************************************************************************)
(* get_device(): the device of the native queue, as clGetCommandQueueInfo  *)
(* reports it; there is none for a null queue (the query fails).           *)
(***************************************************************************)
get_device(queue) == IF queue = 0 THEN 0 ELSE QueueDevice(queue)

\* the context taken for the device's number
get_context_of_device(queue) == IF queue = 0 THEN 0 ELSE QueueDevice(queue)

get_context(queue) == IF queue = 0 THEN 0 ELSE QueueContext(queue)

(***************************************************************************)
(* get_version(): the cached version when it is not 0, else the version of *)
(* the queue's device, which is stored.                                    *)
(***************************************************************************)
\* the device asked on every call
VersionQueried_always(version) == TRUE

VersionQueried(version) == version = 0

ResolvedVersion(queue, version) ==
    IF VersionQueried(version)
    THEN (IF get_device(queue) = 0 THEN 0
          ELSE DeviceVersion(get_device(queue)))
    ELSE version

get_version(o) ==
    /\ live[o]
    /\ LET v == ResolvedVersion(m_queue[o], m_version[o])
       IN /\ m_version' = [m_version EXCEPT ![o] = v]
          /\ last' = [kind |-> "version", op |-> "get_version", self |-> o,
                      pre_queue |-> m_queue[o], pre_version |-> m_version[o],
                      queries |-> IF VersionQueried(m_version[o]) THEN 1 ELSE 0,
                      threw |-> VersionQueried(m_version[o])
                                    /\ get_device(m_queue[o]) = 0,
                      ret |-> v]
    /\ UNCHANGED <<live, m_queue, refs, pending, nsub>>
    /\ DataFrame

(***************************************************************************)
(* The handle model: every lifecycle operation on NObj objects over the    *)
(* native queues 1..NQueue.                                                *)
(***************************************************************************)
HandleQueues == 0..NQueue

Next ==
    \/ \E o \in Obj : command_queue_null(o)
    \/ \E o \in Obj, q \in HandleQueues, r \in BOOLEAN : command_queue_raw(o, q, r)
    \/ \E o \in Obj, c \in Contexts, d \in Devices, e \in Status :
           /\ QueueOf(c, d) \in HandleQueues
           /\ command_queue_ctx(o, c, d, e = CL_SUCCESS, e)
    \/ \E o, p \in Obj : command_queue_copy(o, p)
    \/ \E o, p \in Obj : copy_assign(o, p)
    \/ \E o, p \in Obj : command_queue_move(o, p)
    \/ \E o, p \in Obj : move_assign(o, p)
    \/ \E o \in Obj : destroy(o)
    \/ \E o \in Obj : get_version(o)

Spec == Init /\ [][Next]_vars

(***************************************************************************)
(* Enqueue operations.                                                     *)
(*                                                                         *)
(* Every enqueue method has the same shape: precondition assertions        *)
(* (BOOST_ASSERT, which abort the program when they fail; the model is of  *)
(* a build that keeps them), possibly a version gate                       *)
(* (get_version() < min throws opencl_error(CL_INVALID_DEVICE)), one       *)
(* backend call, and a test of the status the call returns.  A method is   *)
(* modelled by the list of its checks in program order and the backend     *)
(* call it makes; Run executes that against the state.                     *)
(***************************************************************************)
BufLen == MaxBuf - 1
Buffers == {[ctx |-> c, size |-> BufLen] : c \in Contexts}  \* buffer objects
Mems == {[ctx |-> c] : c \in Contexts}     \* images, kernels, memory objects
Offsets == 0..MaxBuf                       \* offsets and sizes
HostPtrs == {0, 1}                         \* a null and a non-null host pointer
WaitLists == {<<>>, <<1>>}                 \* wait lists (event ids)

Check(b) == [k |-> "assert", ok |-> b, min |-> 0]
\* a gate that lets every version through
Gate_open(min) == [k |-> "gate", ok |-> TRUE, min |-> 0]

Gate(min) == [k |-> "gate", ok |-> TRUE, min |-> min]

\* event_ ? CL_FALSE : CL_TRUE
\* the blocking flag set whatever the event pointer
Blocking_always(has_event) == "CL_TRUE"

Blocking(has_event) == IF has_event THEN "CL_FALSE" ELSE "CL_TRUE"
\* the backend call has no blocking parameter
NoFlag == "none"

NoCmd == [api |-> "none"]

\* A method: its checks in program order, its backend call (function,
\* blocking argument, arguments, wait list, event slot) and whether the
\* returned status is tested.  args, events and has_event are the caller's.
Method(op, pre, api, blocking, args, events, has_event, checked) ==
    [op |-> op, pre |-> pre, api |-> api, blocking |-> blocking,
     args |-> args, events |-> events, has_event |-> has_event,
     pass_args |-> args, pass_events |-> events, pass_event |-> has_event,
     checked |-> checked, by_version |-> FALSE, effect |-> "enqueue"]

\* the status of the backend dropped
Throws_never(checked, ret) == FALSE

\* what a failed status leads to: if(ret != CL_SUCCESS) throw opencl_error(ret)
Throws(checked, ret) == checked /\ ret # CL_SUCCESS

\* The state at the return of a call of method d on object o: ver is what
\* get_version() gave if it was called (called), cause is the check that
\* stopped the call ("none" when the backend call was made), ret the status
\* the backend returned and fin whether the command was complete at return.
Return(o, d, variant, ver, called, cause, ret, fin) ==
    LET reached == cause = "none"
        accepted == reached /\ ret = CL_SUCCESS
        submitted == accepted /\ d.effect = "enqueue"
        id == nsub + 1
        threw == cause \in {"query", "gate"} \/ (reached /\ Throws(d.checked, ret))
    IN
    /\ m_version' = IF called THEN [m_version EXCEPT ![o] = ver] ELSE m_version
    /\ nsub' = IF submitted THEN id ELSE nsub
    \* an in-order queue: a complete command leaves none before it pending
    /\ pending' = IF submitted
                  THEN (IF fin THEN <<>> ELSE Append(pending, id))
                  ELSE IF accepted /\ d.effect = "finish" THEN <<>>
                  ELSE pending
    /\ last' = [kind |-> "enqueue", op |-> d.op, variant |-> variant,
                self |-> o, args |-> d.args, events |-> d.events,
                has_event |-> d.has_event,
                pre_queue |-> m_queue[o], pre_version |-> m_version[o],
                queries |-> IF called /\ VersionQueried(m_version[o]) THEN 1 ELSE 0,
                reached |-> reached,
                cmd |-> IF reached
                        THEN [api |-> d.api, queue |-> m_queue[o],
                              blocking |-> d.blocking, args |-> d.pass_args,
                              events |-> d.pass_events,
                              has_event |-> d.pass_event]
                        ELSE NoCmd,
                ret |-> ret,
                submitted |-> submitted,
                complete |-> fin,
                outcome |-> IF cause = "assert" THEN "assert"
                            ELSE IF threw THEN "opencl_error" ELSE "ok",
                cause |-> IF reached /\ threw THEN "backend" ELSE cause,
                code |-> IF cause = "gate" THEN CL_INVALID_DEVICE
                         ELSE IF cause = "query" THEN -36
                         ELSE IF reached /\ threw THEN ret ELSE CL_SUCCESS,
                \* the event the backend stored in the caller's slot
                event_out |-> IF submitted /\ d.pass_event THEN id ELSE 0,
                \* what an _async variant returns
                returned |-> IF variant = "async" /\ submitted /\ d.pass_event
                             THEN id ELSE 0]
    /\ UNCHANGED <<live, m_queue, refs>>

\* A call of method d on object o.  The backend's answers are the
\* environment's choice: the status it returns (never success on a null
\* queue), and, for a command submitted without blocking, whether it is
\* already complete when the call returns.
Run(o, d, variant) ==
    LET ver == ResolvedVersion(m_queue[o], m_version[o])
        n == Len(d.pre)
        fails == {i \in 1..n : IF d.pre[i].k = "assert" THEN ~d.pre[i].ok
                                ELSE ver < d.pre[i].min}
        ff == IF fails = {} THEN 0
              ELSE CHOOSE i \in fails : \A j \in fails : i <= j
        ran == IF ff = 0 THEN 1..n ELSE 1..ff
        \* get_version() was called: by a gate, or to choose the backend call
        called == (\E i \in ran : d.pre[i].k = "gate") \/ (ff = 0 /\ d.by_version)
        cause == IF ff # 0 /\ d.pre[ff].k = "assert" THEN "assert"
                 ELSE IF called /\ ver = 0 THEN "query"
                 ELSE IF ff # 0 THEN "gate"
                 ELSE "none"
        rets == IF cause # "none" THEN {CL_SUCCESS}
                ELSE IF m_queue[o] = 0 THEN Status \ {CL_SUCCESS}
                ELSE Status
    IN
    /\ live[o]
    /\ \E ret \in rets :
         \E fin \in (IF cause = "none" /\ ret = CL_SUCCESS /\ d.effect = "enqueue"
                     THEN (IF d.blocking = "CL_TRUE" THEN {TRUE} ELSE BOOLEAN)
                     ELSE {FALSE}) :
            Return(o, d, variant, ver, called, cause, ret, fin)

(***************************************************************************)
(* Buffer operations.                                                      *)
(***************************************************************************)
read_buffer(o, buffer, offset, size, host_ptr, events, has_event) ==
    Method("enqueue_read_buffer",
           <<Check(m_queue[o] # 0),
             Check(size <= buffer.size),
             Check(buffer.ctx = get_context(m_queue[o])),
             Check(host_ptr # 0)>>,
           "clEnqueueReadBuffer", Blocking(has_event),
           <<buffer, offset, size, host_ptr>>, events, has_event, TRUE)

enqueue_read_buffer(o, buffer, offset, size, host_ptr, events, has_event) ==
    Run(o, read_buffer(o, buffer, offset, size, host_ptr, events, has_event),
        "sync")

enqueue_read_buffer_async(o, buffer, offset, size, host_ptr, events) ==
    Run(o, read_buffer(o, buffer, offset, size, host_ptr, events, TRUE),
        "async")

enqueue_read_buffer_rect(o, buffer, host_ptr, events, has_event) ==
    Run(o, Method("enqueue_read_buffer_rect",
                  <<Check(m_queue[o] # 0),
                    Check(buffer.ctx = get_context(m_queue[o])),
                    Check(host_ptr # 0),
                    Gate(110)>>,
                  "clEnqueueReadBufferRect", Blocking(has_event),
                  <<buffer, host_ptr>>, events, has_event, TRUE),
        "sync")

write_buffer(o, buffer, offset, size, host_ptr, events, has_event) ==
    Method("enqueue_write_buffer",
           <<Check(m_queue[o] # 0),
             Check(size <= buffer.size),
             Check(buffer.ctx = get_context(m_queue[o])),
             Check(host_ptr # 0)>>,
           "clEnqueueWriteBuffer", Blocking(has_event),
           <<buffer, offset, size, host_ptr>>, events, has_event, TRUE)

enqueue_write_buffer(o, buffer, offset, size, host_ptr, events, has_event) ==
    Run(o, write_buffer(o, buffer, offset, size, host_ptr, events, has_event),
        "sync")

enqueue_write_buffer_async(o, buffer, offset, size, host_ptr, events) ==
    Run(o, write_buffer(o, buffer, offset, size, host_ptr, events, TRUE),
        "async")

enqueue_write_buffer_rect(o, buffer, host_ptr, events, has_event) ==
    Run(o, Method("enqueue_write_buffer_rect",
                  <<Check(m_queue[o] # 0),
                    Check(buffer.ctx = get_context(m_queue[o])),
                    Check(host_ptr # 0),
                    Gate(110)>>,
                  "clEnqueueWriteBufferRect", Blocking(has_event),
                  <<buffer, host_ptr>>, events, has_event, TRUE),
        "sync")

\* source and destination passed to the backend the wrong way round
copy_buffer_swapped(o, src_buffer, dst_buffer, src_offset, dst_offset, size, events, has_event) ==
    Method("enqueue_copy_buffer",
           <<Check(m_queue[o] # 0),
             Check(src_offset + size <= src_buffer.size),
             Check(dst_offset + size <= dst_buffer.size),
             Check(src_buffer.ctx = get_context(m_queue[o])),
             Check(dst_buffer.ctx = get_context(m_queue[o]))>>,
           "clEnqueueCopyBuffer", NoFlag,
           <<dst_buffer, src_buffer, dst_offset, src_offset, size>>,
           events, has_event, TRUE)

copy_buffer(o, src_buffer, dst_buffer, src_offset, dst_offset, size, events, has_event) ==
    Method("enqueue_copy_buffer",
           <<Check(m_queue[o] # 0),
             Check(src_offset + size <= src_buffer.size),
             Check(dst_offset + size <= dst_buffer.size),
             Check(src_buffer.ctx = get_context(m_queue[o])),
             Check(dst_buffer.ctx = get_context(m_queue[o]))>>,
           "clEnqueueCopyBuffer", NoFlag,
           <<src_buffer, dst_buffer, src_offset, dst_offset, size>>,
           events, has_event, TRUE)

enqueue_copy_buffer(o, src_buffer, dst_buffer, src_offset, dst_offset, size, events, has_event) ==
    Run(o, copy_buffer(o, src_buffer, dst_buffer, src_offset, dst_offset,
                       size, events, has_event),
        "sync")

enqueue_copy_buffer_async(o, src_buffer, dst_buffer, src_offset, dst_offset, size, events) ==
    Run(o, copy_buffer(o, src_buffer, dst_buffer, src_offset, dst_offset,
                       size, events, TRUE),
        "async")

enqueue_copy_buffer_rect(o, src_buffer, dst_buffer, events, has_event) ==
    Run(o, Method("enqueue_copy_buffer_rect",
                  <<Check(m_queue[o] # 0),
                    Check(src_buffer.ctx = get_context(m_queue[o])),
                    Check(dst_buffer.ctx = get_context(m_queue[o])),
                    Gate(110)>>,
                  "clEnqueueCopyBufferRect", NoFlag,
                  <<src_buffer, dst_buffer>>, events, has_event, TRUE),
        "sync")

fill_buffer(o, buffer, offset, size, events, has_event) ==
    Method("enqueue_fill_buffer",
           <<Check(m_queue[o] # 0),
             Check(offset + size <= buffer.size),
             Check(buffer.ctx = get_context(m_queue[o])),
             Gate(120)>>,
           "clEnqueueFillBuffer", NoFlag,
           <<buffer, offset, size>>, events, has_event, TRUE)

enqueue_fill_buffer(o, buffer, offset, size, events, has_event) ==
    Run(o, fill_buffer(o, buffer, offset, size, events, has_event),
        "sync")

enqueue_fill_buffer_async(o, buffer, offset, size, events) ==
    Run(o, fill_buffer(o, buffer, offset, size, events, TRUE),
        "async")

enqueue_map_buffer(o, buffer, offset, size, events, has_event) ==
    Run(o, Method("enqueue_map_buffer",
                  <<Check(m_queue[o] # 0),
                    Check(offset + size <= buffer.size),
                    Check(buffer.ctx = get_context(m_queue[o]))>>,
                  "clEnqueueMapBuffer", Blocking(has_event),
                  <<buffer, offset, size>>, events, has_event, TRUE),
        "sync")

BufferOps(o, events, has_event) ==
    \/ \E b \in Buffers, off \in Offsets, sz \in Offsets, hp \in HostPtrs :
           \/ enqueue_read_buffer(o, b, off, sz, hp, events, has_event)
           \/ has_event /\ enqueue_read_buffer_async(o, b, off, sz, hp, events)
           \/ enqueue_write_buffer(o, b, off, sz, hp, events, has_event)
           \/ has_event /\ enqueue_write_buffer_async(o, b, off, sz, hp, events)
    \/ \E b \in Buffers, hp \in HostPtrs :
           \/ enqueue_read_buffer_rect(o, b, hp, events, has_event)
           \/ enqueue_write_buffer_rect(o, b, hp, events, has_event)
    \/ \E b \in Buffers, off \in Offsets, sz \in Offsets :
           \/ enqueue_fill_buffer(o, b, off, sz, events, has_event)
           \/ has_event /\ enqueue_fill_buffer_async(o, b, off, sz, events)
           \/ enqueue_map_buffer(o, b, off, sz, events, has_event)
    \/ \E b1 \in Buffers, b2 \in Buffers, so \in Offsets, do \in Offsets, sz \in Offsets :
           \/ enqueue_copy_buffer(o, b1, b2, so, do, sz, events, has_event)
           \/ has_event /\ enqueue_copy_buffer_async(o, b1, b2, so, do, sz, events)
    \/ \E b1 \in Buffers, b2 \in Buffers :
           enqueue_copy_buffer_rect(o, b1, b2, events, has_event)

(***************************************************************************)
(* Map and unmap.  In the extents<N> overloads and in enqueue_unmap_buffer *)
(* the context assertion comes first and the pointer overload's own        *)
(* assertions follow.                                                      *)
(***************************************************************************)
enqueue_map_image(o, image, events, has_event) ==
    Run(o, Method("enqueue_map_image",
                  <<Check(m_queue[o] # 0),
                    Check(image.ctx = get_context(m_queue[o]))>>,
                  "clEnqueueMapImage", Blocking(has_event),
                  <<image>>, events, has_event, TRUE),
        "sync")

enqueue_map_image_extents(o, image, events, has_event) ==
    Run(o, Method("enqueue_map_image<N>",
                  <<Check(image.ctx = get_context(m_queue[o])),
                    Check(m_queue[o] # 0),
                    Check(image.ctx = get_context(m_queue[o]))>>,
                  "clEnqueueMapImage", Blocking(has_event),
                  <<image>>, events, has_event, TRUE),
        "sync")

enqueue_unmap_buffer(o, mem_object, events, has_event) ==
    Run(o, Method("enqueue_unmap_buffer",
                  <<Check(mem_object.ctx = get_context(m_queue[o])),
                    Check(m_queue[o] # 0)>>,
                  "clEnqueueUnmapMemObject", NoFlag,
                  <<mem_object>>, events, has_event, TRUE),
        "sync")

enqueue_unmap_mem_object(o, mem, events, has_event) ==
    Run(o, Method("enqueue_unmap_mem_object",
                  <<Check(m_queue[o] # 0)>>,
                  "clEnqueueUnmapMemObject", NoFlag,
                  <<mem>>, events, has_event, TRUE),
        "sync")

(***************************************************************************)
(* Image operations: the pointer overloads assert the queue only.          *)
(***************************************************************************)
enqueue_read_image(o, image, events, has_event) ==
    Run(o, Method("enqueue_read_image",
                  <<Check(m_queue[o] # 0)>>,
                  "clEnqueueReadImage", Blocking(has_event),
                  <<image>>, events, has_event, TRUE),
        "sync")

enqueue_read_image_extents(o, image, events, has_event) ==
    Run(o, Method("enqueue_read_image<N>",
                  <<Check(image.ctx = get_context(m_queue[o])),
                    Check(m_queue[o] # 0)>>,
                  "clEnqueueReadImage", Blocking(has_event),
                  <<image>>, events, has_event, TRUE),
        "sync")

enqueue_write_image(o, image, events, has_event) ==
    Run(o, Method("enqueue_write_image",
                  <<Check(m_queue[o] # 0)>>,
                  "clEnqueueWriteImage", Blocking(has_event),
                  <<image>>, events, has_event, TRUE),
        "sync")

enqueue_write_image_extents(o, image, events, has_event) ==
    Run(o, Method("enqueue_write_image<N>",
                  <<Check(image.ctx = get_context(m_queue[o])),
                    Check(m_queue[o] # 0)>>,
                  "clEnqueueWriteImage", Blocking(has_event),
                  <<image>>, events, has_event, TRUE),
        "sync")

enqueue_copy_image(o, src_image, dst_image, events, has_event) ==
    Run(o, Method("enqueue_copy_image",
                  <<Check(m_queue[o] # 0)>>,
                  "clEnqueueCopyImage", NoFlag,
                  <<src_image, dst_image>>, events, has_event, TRUE),
        "sync")

enqueue_copy_image_extents(o, src_image, dst_image, same_format, events, has_event) ==
    Run(o, Method("enqueue_copy_image<N>",
                  <<Check(src_image.ctx = get_context(m_queue[o])),
                    Check(dst_image.ctx = get_context(m_queue[o])),
                    Check(same_format),
                    Check(m_queue[o] # 0)>>,
                  "clEnqueueCopyImage", NoFlag,
                  <<src_image, dst_image>>, events, has_event, TRUE),
        "sync")

enqueue_copy_image_to_buffer(o, src_image, dst_buffer, events, has_event) ==
    Run(o, Method("enqueue_copy_image_to_buffer",
                  <<Check(m_queue[o] # 0)>>,
                  "clEnqueueCopyImageToBuffer", NoFlag,
                  <<src_image, dst_buffer>>, events, has_event, TRUE),
        "sync")

enqueue_copy_buffer_to_image(o, src_buffer, dst_image, events, has_event) ==
    Run(o, Method("enqueue_copy_buffer_to_image",
                  <<Check(m_queue[o] # 0)>>,
                  "clEnqueueCopyBufferToImage", NoFlag,
                  <<src_buffer, dst_image>>, events, has_event, TRUE),
        "sync")

\* the version gate comes before the assertions
enqueue_fill_image(o, image, events, has_event) ==
    Run(o, Method("enqueue_fill_image",
                  <<Gate(120),
                    Check(m_queue[o] # 0),
                    Check(image.ctx = get_context(m_queue[o]))>>,
                  "clEnqueueFillImage", NoFlag,
                  <<image>>, events, has_event, TRUE),
        "sync")

enqueue_fill_image_extents(o, image, events, has_event) ==
    Run(o, Method("enqueue_fill_image<N>",
                  <<Check(image.ctx = get_context(m_queue[o])),
                    Gate(120),
                    Check(m_queue[o] # 0),
                    Check(image.ctx = get_context(m_queue[o]))>>,
                  "clEnqueueFillImage", NoFlag,
                  <<image>>, events, has_event, TRUE),
        "sync")

enqueue_migrate_memory_objects(o, mem, events, has_event) ==
    Run(o, Method("enqueue_migrate_memory_objects",
                  <<Check(m_queue[o] # 0),
                    Gate(120)>>,
                  "clEnqueueMigrateMemObjects", NoFlag,
                  <<mem>>, events, has_event, TRUE),
        "sync")

ImageOps(o, events, has_event) ==
    \/ \E m \in Mems :
           \/ enqueue_map_image(o, m, events, has_event)
           \/ enqueue_map_image_extents(o, m, events, has_event)
           \/ enqueue_unmap_buffer(o, m, events, has_event)
           \/ enqueue_unmap_mem_object(o, m, events, has_event)
           \/ enqueue_read_image(o, m, events, has_event)
           \/ enqueue_read_image_extents(o, m, events, has_event)
           \/ enqueue_write_image(o, m, events, has_event)
           \/ enqueue_write_image_extents(o, m, events, has_event)
           \/ enqueue_fill_image(o, m, events, has_event)
           \/ enqueue_fill_image_extents(o, m, events, has_event)
           \/ enqueue_migrate_memory_objects(o, m, events, has_event)
    \/ \E m1 \in Mems, m2 \in Mems :
           \/ enqueue_copy_image(o, m1, m2, events, has_event)
           \/ \E f \in BOOLEAN :
                  enqueue_copy_image_extents(o, m1, m2, f, events, has_event)
           \/ enqueue_copy_image_to_buffer(o, m1, m2, events, has_event)
           \/ enqueue_copy_buffer_to_image(o, m1, m2, events, has_event)

(***************************************************************************)
(* Kernel execution.                                                       *)
(***************************************************************************)
WorkDims == 0..3

nd_range_kernel(o, kernel, work_dim, events, has_event) ==
    Method("enqueue_nd_range_kernel",
           <<Check(m_queue[o] # 0),
             Check(work_dim > 0),
             Check(kernel.ctx = get_context(m_queue[o]))>>,
           "clEnqueueNDRangeKernel", NoFlag,
           <<kernel, work_dim>>, events, has_event, TRUE)

enqueue_nd_range_kernel(o, kernel, work_dim, events, has_event) ==
    Run(o, nd_range_kernel(o, kernel, work_dim, events, has_event), "sync")

\* extents<N>, N > 0 (BOOST_STATIC_ASSERT)
enqueue_nd_range_kernel_extents(o, kernel, N, events, has_event) ==
    Run(o, [nd_range_kernel(o, kernel, N, events, has_event)
                EXCEPT !.op = "enqueue_nd_range_kernel<N>"],
        "sync")

enqueue_nd_range_kernel_async(o, kernel, work_dim, events) ==
    Run(o, nd_range_kernel(o, kernel, work_dim, events, TRUE), "async")

range_kernel_1d(o, kernel, events, has_event) ==
    [nd_range_kernel(o, kernel, 1, events, has_event)
         EXCEPT !.op = "enqueue_1d_range_kernel", !.args = <<kernel>>]

enqueue_1d_range_kernel(o, kernel, events, has_event) ==
    Run(o, range_kernel_1d(o, kernel, events, has_event), "sync")

enqueue_1d_range_kernel_async(o, kernel, events) ==
    Run(o, range_kernel_1d(o, kernel, events, TRUE), "async")

\* clEnqueueTask() is replaced by clEnqueueNDRangeKernel() from version 2.0
enqueue_task(o, kernel, events, has_event) ==
    LET new == ResolvedVersion(m_queue[o], m_version[o]) >= 200
    IN Run(o, [Method("enqueue_task",
                      <<Check(m_queue[o] # 0),
                        Check(kernel.ctx = get_context(m_queue[o]))>>,
                      IF new THEN "clEnqueueNDRangeKernel" ELSE "clEnqueueTask",
                      NoFlag, <<kernel>>, events, has_event, TRUE)
                   EXCEPT !.by_version = TRUE,
                          !.pass_args = IF new THEN <<kernel, 1>> ELSE <<kernel>>],
           "sync")

native_kernel(o, events, has_event) ==
    Method("enqueue_native_kernel",
           <<Check(m_queue[o] # 0)>>,
           "clEnqueueNativeKernel", NoFlag, <<>>, events, has_event, TRUE)

enqueue_native_kernel(o, events, has_event) ==
    Run(o, native_kernel(o, events, has_event), "sync")

\* the overload for a nullary function goes through the trampoline
enqueue_native_kernel_nullary(o, events, has_event) ==
    Run(o, [native_kernel(o, events, has_event)
                EXCEPT !.op = "enqueue_native_kernel(void)"],
        "sync")

KernelOps(o, events, has_event) ==
    \E k \in Mems :
        \/ \E w \in WorkDims :
               \/ enqueue_nd_range_kernel(o, k, w, events, has_event)
               \/ has_event /\ enqueue_nd_range_kernel_async(o, k, w, events)
               \/ w > 0 /\ enqueue_nd_range_kernel_extents(o, k, w, events, has_event)
        \/ enqueue_1d_range_kernel(o, k, events, has_event)
        \/ has_event /\ enqueue_1d_range_kernel_async(o, k, events)
        \/ enqueue_task(o, k, events, has_event)
        \/ k.ctx = 1 /\ enqueue_native_kernel(o, events, has_event)
        \/ k.ctx = 1 /\ enqueue_native_kernel_nullary(o, events, has_event)

(***************************************************************************)
(* flush, finish, barriers and markers.  flush(), finish() and both        *)
(* enqueue_barrier overloads drop the status the backend returns.          *)
(***************************************************************************)
flush(o) ==
    Run(o, [Method("flush", <<Check(m_queue[o] # 0)>>,
                   "clFlush", NoFlag, <<>>, <<>>, FALSE, FALSE)
                EXCEPT !.effect = "flush"],
        "sync")

finish(o) ==
    Run(o, [Method("finish", <<Check(m_queue[o] # 0)>>,
                   "clFinish", NoFlag, <<>>, <<>>, FALSE, FALSE)
                EXCEPT !.effect = "finish"],
        "sync")

\* a choice that takes the legacy call whatever the version
WithWaitList_never(version) == FALSE

\* if (get_version() >= 120): the backend call that accepts a wait list
WithWaitList(version) == version >= 120

enqueue_barrier(o) ==
    LET new == WithWaitList(ResolvedVersion(m_queue[o], m_version[o]))
    IN Run(o, [Method("enqueue_barrier", <<Check(m_queue[o] # 0)>>,
                      IF new THEN "clEnqueueBarrierWithWaitList"
                      ELSE "clEnqueueBarrier",
                      NoFlag, <<>>, <<>>, FALSE, FALSE)
                   EXCEPT !.by_version = TRUE],
           "sync")

enqueue_barrier_events(o, events, has_event) ==
    Run(o, Method("enqueue_barrier(events)",
                  <<Check(m_queue[o] # 0),
                    Gate(120)>>,
                  "clEnqueueBarrierWithWaitList", NoFlag,
                  <<>>, events, has_event, FALSE),
        "sync")

\* enqueue_marker(event*): no assertion; an empty wait list
enqueue_marker(o, has_event) ==
    LET new == WithWaitList(ResolvedVersion(m_queue[o], m_version[o]))
    IN Run(o, [Method("enqueue_marker", <<>>,
                      IF new THEN "clEnqueueMarkerWithWaitList"
                      ELSE "clEnqueueMarker",
                      NoFlag, <<>>, <<>>, has_event, TRUE)
                   EXCEPT !.by_version = TRUE],
           "sync")

enqueue_marker_events(o, events, has_event) ==
    Run(o, Method("enqueue_marker(events)",
                  <<Gate(120)>>,
                  "clEnqueueMarkerWithWaitList", NoFlag,
                  <<>>, events, has_event, TRUE),
        "sync")

SyncOps(o, events, has_event) ==
    \/ events = <<>> /\ ~has_event /\ flush(o)
    \/ events = <<>> /\ ~has_event /\ finish(o)
    \/ events = <<>> /\ ~has_event /\ enqueue_barrier(o)
    \/ enqueue_barrier_events(o, events, has_event)
    \/ events = <<>> /\ enqueue_marker(o, has_event)
    \/ enqueue_marker_events(o, events, has_event)

(***************************************************************************)
(* Shared virtual memory operations: a version gate and no assertion.      *)
(***************************************************************************)
svm_memcpy(o, events, has_event) ==
    Method("enqueue_svm_memcpy", <<Gate(200)>>,
           "clEnqueueSVMMemcpy", Blocking(has_event),
           <<>>, events, has_event, TRUE)

enqueue_svm_memcpy(o, events, has_event) ==
    Run(o, svm_memcpy(o, events, has_event), "sync")

enqueue_svm_memcpy_async(o, events) ==
    Run(o, svm_memcpy(o, events, TRUE), "async")

enqueue_svm_fill(o, events, has_event) ==
    Run(o, Method("enqueue_svm_fill", <<Gate(200)>>,
                  "clEnqueueSVMMemFill", NoFlag,
                  <<>>, events, has_event, TRUE),
        "sync")

enqueue_svm_free(o, events, has_event) ==
    Run(o, Method("enqueue_svm_free", <<Gate(200)>>,
                  "clEnqueueSVMFree", NoFlag,
                  <<>>, events, has_event, TRUE),
        "sync")

enqueue_svm_map(o, events, has_event) ==
    Run(o, Method("enqueue_svm_map", <<Gate(200)>>,
                  "clEnqueueSVMMap", Blocking(has_event),
                  <<>>, events, has_event, TRUE),
        "sync")

enqueue_svm_unmap(o, events, has_event) ==
    Run(o, Method("enqueue_svm_unmap", <<Gate(200)>>,
                  "clEnqueueSVMUnmap", NoFlag,
                  <<>>, events, has_event, TRUE),
        "sync")

SvmOps(o, events, has_event) ==
    \/ enqueue_svm_memcpy(o, events, has_event)
    \/ has_event /\ enqueue_svm_memcpy_async(o, events)
    \/ enqueue_svm_fill(o, events, has_event)
    \/ enqueue_svm_free(o, events, has_event)
    \/ enqueue_svm_map(o, events, has_event)
    \/ enqueue_svm_unmap(o, events, has_event)

(***************************************************************************)
(* The backend completes the oldest pending command of the in-order queue. *)
(***************************************************************************)
BackendComplete ==
    /\ pending # <<>>
    /\ pending' = Tail(pending)
    /\ UNCHANGED <<live, m_queue, m_version, refs, nsub, last>>

(***************************************************************************)
(* The caller takes the result of a call and goes on.  A failed assertion  *)
(* has aborted the program: nothing follows it.                            *)
(***************************************************************************)
Idle == last = NoCall

Proceed ==
    /\ last # NoCall
    /\ last.kind = "enqueue" => last.outcome # "assert"
    /\ last' = NoCall
    /\ UNCHANGED <<live, m_queue, m_version, refs, pending, nsub>>
    /\ DataFrame

(***************************************************************************)
(* The enqueue model: one command_queue object, constructed in any of the  *)
(* three ways, and every enqueue operation on it.                          *)
(***************************************************************************)
TheQueue == CHOOSE o \in Obj : \A p \in Obj : o <= p

Construct(o) ==
    \/ command_queue_null(o)
    \/ \E q \in AllQueues, r \in BOOLEAN : command_queue_raw(o, q, r)
    \/ \E c \in Contexts, d \in Devices, e \in Status :
           command_queue_ctx(o, c, d, e = CL_SUCCESS, e)

EnqueueOps(o) ==
    /\ nsub < MaxCmds
    /\ DataFrame
    /\ \E events \in WaitLists, has_event \in BOOLEAN :
        \/ BufferOps(o, events, has_event)
        \/ ImageOps(o, events, has_event)
        \/ KernelOps(o, events, has_event)
        \/ SyncOps(o, events, has_event)
        \/ SvmOps(o, events, has_event)

NextEnqueue ==
    \/ Idle /\ Construct(TheQueue)
    \/ Idle /\ get_version(TheQueue)
    \/ Idle /\ EnqueueOps(TheQueue)
    \/ BackendComplete /\ DataFrame
    \/ Proceed

SpecEnqueue == Init /\ [][NextEnqueue]_vars

(***************************************************************************)
(* Properties of the handle lifecycle.                                     *)
(***************************************************************************)
NRetain(calls) == Cardinality({i \in 1..Len(calls) : calls[i].f = "retain"})
NRelease(calls) == Cardinality({i \in 1..Len(calls) : calls[i].f = "release"})
Count(calls, c) == Cardinality({i \in 1..Len(calls) : calls[i] = c})

\* C1: after any sequence of lifecycle operations, for every native queue
\* the references the wrappers hold on it (retains plus adopted references
\* minus releases) equal the number of live objects whose handle it is; a
\* destruction of a non-null object issues exactly one release, of its own
\* queue, a destruction of a null object issues none, and no release is
\* issued for a queue that no live object holds.
RefCountMatchesHolders ==
    /\ \A q \in AllQueues : refs[q] = Cardinality(Holders(q))
    /\ (last.kind = "handle" /\ last.op = "destroy") =>
           last.calls = (IF last.pre_queue # 0
                         THEN <<[f |-> "release", q |-> last.pre_queue]>>
                         ELSE <<>>)
    /\ last.kind = "handle" => ~last.orphan

\* a shared queue has lost one of its holders by destruction
RefCountWitness ==
    /\ last.kind = "handle" /\ last.op = "destroy" /\ last.pre_queue # 0
    /\ Cardinality(Holders(last.pre_queue)) = 1

\* C2: a copy construction or copy assignment from a non-null source issues
\* exactly one retain, on the source's queue, leaves the source unchanged
\* and gives the destination the source's native id and cached version; a
\* copy assignment also releases the destination's previous non-null handle
\* exactly once; a copy assignment of an object to itself issues no retain
\* and no release and changes nothing.
CopyStep ==
    LET c == last' IN
    (c.kind = "handle" /\ c.op \in {"ctor_copy", "copy_assign"}
        /\ m_queue[c.other] # 0) =>
        LET o == c.self
            p == c.other
            old == IF c.op = "copy_assign" THEN m_queue[o] ELSE 0
        IN IF o = p
           THEN c.calls = <<>> /\ UNCHANGED <<live, m_queue, m_version, refs>>
           ELSE /\ NRetain(c.calls) = 1
                /\ Count(c.calls, [f |-> "retain", q |-> m_queue[p]]) = 1
                /\ live'[p] /\ m_queue'[p] = m_queue[p]
                /\ m_version'[p] = m_version[p]
                /\ live'[o] /\ m_queue'[o] = m_queue[p]
                /\ m_version'[o] = m_version[p]
                /\ NRelease(c.calls) = (IF old # 0 THEN 1 ELSE 0)
                /\ old # 0 => Count(c.calls, [f |-> "release", q |-> old]) = 1

CopySemantics == [][CopyStep]_vars

\* a copy assignment over a non-null destination holding another queue, the
\* source carrying a resolved version
CopyWitness ==
    /\ last.kind = "handle" /\ last.op = "copy_assign"
    /\ last.self # last.other
    /\ last.pre_queue # 0 /\ last.src_queue # 0
    /\ last.pre_queue # last.src_queue
    /\ last.src_version # 0

\* C3: a move construction or move assignment gives the destination the
\* source's native id without any retain and leaves the source a null queue
\* (native id 0); a move assignment also releases the destination's previous
\* non-null handle exactly once.
MoveStep ==
    LET c == last' IN
    (c.kind = "handle" /\ c.op \in {"ctor_move", "move_assign"}) =>
        LET o == c.self
            p == c.other
            old == IF c.op = "move_assign" THEN m_queue[o] ELSE 0
        IN /\ m_queue'[o] = m_queue[p]
           /\ NRetain(c.calls) = 0
           /\ m_queue'[p] = 0
           /\ NRelease(c.calls) = (IF old # 0 THEN 1 ELSE 0)
           /\ old # 0 => Count(c.calls, [f |-> "release", q |-> old]) = 1

RawConstruction ==
    (last.kind = "handle" /\ last.op = "ctor_raw") =>
        /\ last.calls = (IF last.arg # 0 /\ last.retain
                         THEN <<[f |-> "retain", q |-> last.arg]>>
                         ELSE <<>>)
        /\ live[last.self]
        /\ m_queue[last.self] = last.arg
        /\ m_version[last.self] = 0

\* an adoption of a non-null id that another object already holds
RawWitness ==
    /\ last.kind = "handle" /\ last.op = "ctor_raw"
    /\ last.arg # 0 /\ ~last.retain
    /\ Cardinality(Holders(last.arg)) = 2


(***************************************************************************)
(* Properties of the enqueue operations.                                   *)
(***************************************************************************)
IsCall == last.kind = "enqueue"

\* a step of SpecEnqueue that is one call of an enqueue operation
CallStep == last = NoCall /\ last'.kind = "enqueue"

StatusOps ==
    {"enqueue_read_buffer", "enqueue_write_buffer", "enqueue_copy_buffer",
     "enqueue_fill_buffer", "enqueue_map_buffer", "enqueue_unmap_buffer",
     "enqueue_unmap_mem_object", "enqueue_map_image", "enqueue_map_image<N>",
     "enqueue_read_buffer_rect", "enqueue_write_buffer_rect",
     "enqueue_copy_buffer_rect",
     "enqueue_read_image", "enqueue_read_image<N>",
     "enqueue_write_image", "enqueue_write_image<N>",
     "enqueue_copy_image", "enqueue_copy_image<N>",
     "enqueue_copy_image_to_buffer", "enqueue_copy_buffer_to_image",
     "enqueue_fill_image", "enqueue_fill_image<N>",
     "enqueue_migrate_memory_objects",
     "enqueue_nd_range_kernel", "enqueue_nd_range_kernel<N>",
     "enqueue_1d_range_kernel", "enqueue_task",
     "enqueue_native_kernel", "enqueue_native_kernel(void)",
     "enqueue_marker", "enqueue_marker(events)",
     "enqueue_svm_memcpy", "enqueue_svm_fill", "enqueue_svm_free",
     "enqueue_svm_map", "enqueue_svm_unmap"}

\* C5: for every enqueue operation that reaches the backend (buffer, rect,
\* image, migrate, kernel, task, native kernel, marker, SVM; synchronous or
\* _async), a backend status s other than success makes the call raise an
\* error carrying exactly s, and the success status makes it raise none.
BackendStatusPropagates ==
    (IsCall /\ last.op \in StatusOps /\ last.reached) =>
        /\ last.ret # CL_SUCCESS =>
               /\ last.outcome = "opencl_error"
               /\ last.cause = "backend"
               /\ last.code = last.ret
        /\ last.ret = CL_SUCCESS => last.outcome = "ok"

BackendStatusWitness ==
    /\ IsCall /\ last.op = "enqueue_marker" /\ last.reached
    /\ last.ret = CL_INVALID_DEVICE
    /\ last.outcome = "opencl_error" /\ last.code = CL_INVALID_DEVICE
    /\ last.cause = "backend"

\* the minimum version of each version-gated operation
MinVersion(op) ==
    CASE op \in {"enqueue_read_buffer_rect", "enqueue_write_buffer_rect",
                 "enqueue_copy_buffer_rect"} -> 110
      [] op \in {"enqueue_fill_buffer", "enqueue_fill_image",
                 "enqueue_fill_image<N>", "enqueue_migrate_memory_objects",
                 "enqueue_barrier(events)", "enqueue_marker(events)"} -> 120
      [] op \in {"enqueue_svm_memcpy", "enqueue_svm_fill", "enqueue_svm_free",
                 "enqueue_svm_map", "enqueue_svm_unmap"} -> 200
      [] OTHER -> 0

\* the version get_version() resolves for the object of call c, before it
VersionBefore(c) ==
    IF c.pre_version # 0 THEN c.pre_version
    ELSE IF c.pre_queue = 0 THEN 0
    ELSE DeviceVersion(QueueDevice(c.pre_queue))

Below(c) == VersionBefore(c) # 0 /\ VersionBefore(c) < MinVersion(c.op)

GateStep ==
    (CallStep /\ Below(last')) =>
        /\ ~last'.reached
        /\ last'.cmd = NoCmd
        /\ ~last'.submitted
        /\ UNCHANGED <<pending, nsub, refs, m_queue, live>>
        \* a call that is not stopped by one of its assertions first
        /\ last'.outcome # "assert" =>
               /\ last'.outcome = "opencl_error"
               /\ last'.cause = "gate"
               /\ last'.code = CL_INVALID_DEVICE

\* C6: a call of a version-gated operation (rect read/write/copy: 110;
\* fill_buffer, fill_image, migrate, barrier and marker with a wait list:
\* 120; SVM operations: 200) on a queue whose resolved version is below the
\* minimum fails with opencl_error(CL_INVALID_DEVICE) and makes no backend
\* call: no command is submitted and the backend's state is unchanged.
GateBeforeBackend == [][GateStep]_vars

GateWitness ==
    /\ IsCall /\ last.op = "enqueue_fill_image" /\ Below(last)
    /\ last.pre_queue # 0
    /\ last.outcome = "opencl_error" /\ last.cause = "gate"
    /\ ~last.reached

\* C7: every enqueue operation called without an event pointer has its
\* submitted command complete when the call returns.
SyncCallCompletes ==
    (IsCall /\ ~last.has_event /\ last.submitted) => last.complete

AsyncOps ==
    {"enqueue_read_buffer", "enqueue_write_buffer", "enqueue_copy_buffer",
     "enqueue_fill_buffer", "enqueue_nd_range_kernel",
     "enqueue_1d_range_kernel", "enqueue_svm_memcpy"}

\* the backend call of the synchronous counterpart
SyncApi(op) ==
    CASE op = "enqueue_read_buffer" -> "clEnqueueReadBuffer"
      [] op = "enqueue_write_buffer" -> "clEnqueueWriteBuffer"
      [] op = "enqueue_copy_buffer" -> "clEnqueueCopyBuffer"
      [] op = "enqueue_fill_buffer" -> "clEnqueueFillBuffer"
      [] op = "enqueue_nd_range_kernel" -> "clEnqueueNDRangeKernel"
      [] op = "enqueue_1d_range_kernel" -> "clEnqueueNDRangeKernel"
      [] op = "enqueue_svm_memcpy" -> "clEnqueueSVMMemcpy"
      [] OTHER -> "none"

\* the arguments the synchronous counterpart passes on: the 1-D kernel
\* range is an N-D range of work_dim 1
SyncArgs(c) ==
    IF c.op = "enqueue_1d_range_kernel" THEN Append(c.args, 1) ELSE c.args

AsyncStep ==
    (CallStep /\ last'.variant = "async" /\ last'.reached) =>
        LET c == last' IN
        /\ c.op \in AsyncOps
        /\ c.cmd.api = SyncApi(c.op)
        /\ c.cmd.queue = c.pre_queue
        /\ c.cmd.args = SyncArgs(c)
        /\ c.cmd.events = c.events
        /\ c.cmd.has_event
        /\ c.cmd.blocking # "CL_TRUE"
        /\ c.ret = CL_SUCCESS =>
               /\ c.outcome = "ok"
               /\ nsub' = nsub + 1
               /\ c.returned = nsub'
               /\ c.returned = c.event_out
               /\ \/ pending' = Append(pending, c.returned)
                  \/ pending' = <<>>
        /\ c.ret # CL_SUCCESS =>
               /\ nsub' = nsub /\ pending' = pending
               /\ c.returned = 0

\* C8: a call of an _async variant that reaches the backend makes exactly
\* one backend call, that of its synchronous counterpart with the same
\* arguments and wait list, never with the blocking flag set, and on success
\* one command is submitted and its event is what the call returns.
AsyncSubmitsOnce == [][AsyncStep]_vars

AsyncWitness ==
    /\ IsCall /\ last.variant = "async" /\ last.op = "enqueue_read_buffer"
    /\ last.events # <<>>
    /\ last.ret = CL_SUCCESS /\ last.returned # 0 /\ ~last.complete
    /\ last.returned \in {pending[i] : i \in 1..Len(pending)}

VersionStep ==
    LET c == last' IN
    /\ (last = NoCall /\ c.kind = "version") =>
           IF c.pre_version = 0
           THEN /\ c.queries = 1
                /\ ~c.threw =>
                       /\ c.ret = DeviceVersion(QueueDevice(c.pre_queue))
                       /\ m_version'[c.self] = c.ret
           ELSE /\ c.queries = 0
                /\ ~c.threw
                /\ c.ret = c.pre_version
                /\ m_version' = m_version
    /\ (last = NoCall /\ c.kind = "enqueue" /\ c.pre_version # 0) =>
           /\ c.queries = 0
           /\ m_version' = m_version
    /\ (last = NoCall /\ c.kind = "create" /\ ~c.threw) =>
           m_version'[c.self] = DeviceVersion(c.device)

\* C9: get_version() on an object whose cached version is 0 queries the
\* device once and stores what it finds; once the cached version is not 0,
\* get_version() returns it without a query and no enqueue operation
\* changes it; the (context, device) constructor caches the version of its
\* device.
VersionMemoized == [][VersionStep]_vars

VersionWitness ==
    /\ last.kind = "version" /\ last.pre_version # 0
    /\ last.queries = 0 /\ last.ret = last.pre_version
    /\ nsub > 0

RangeOps ==
    {"enqueue_read_buffer", "enqueue_write_buffer", "enqueue_fill_buffer",
     "enqueue_map_buffer"}

\* C10: a buffer operation given an offset and a size reaches the backend
\* only with offset + size at most the buffer's size (for a copy, on the
\* source and on the destination).
RangeWithinBuffer ==
    (IsCall /\ last.reached) =>
        /\ last.op \in RangeOps =>
               last.args[2] + last.args[3] <= last.args[1].size
        /\ last.op = "enqueue_copy_buffer" =>
               /\ last.args[3] + last.args[5] <= last.args[1].size
               /\ last.args[4] + last.args[5] <= last.args[2].size

\* the buffers, images and kernels a call was given
TwoResourceOps ==
    {"enqueue_copy_buffer", "enqueue_copy_buffer_rect", "enqueue_copy_image",
     "enqueue_copy_image<N>", "enqueue_copy_image_to_buffer",
     "enqueue_copy_buffer_to_image"}

OneResourceOps ==
    {"enqueue_read_buffer", "enqueue_write_buffer", "enqueue_fill_buffer",
     "enqueue_map_buffer", "enqueue_read_buffer_rect",
     "enqueue_write_buffer_rect", "enqueue_unmap_buffer",
     "enqueue_map_image", "enqueue_map_image<N>",
     "enqueue_read_image", "enqueue_read_image<N>",
     "enqueue_write_image", "enqueue_write_image<N>",
     "enqueue_fill_image", "enqueue_fill_image<N>",
     "enqueue_nd_range_kernel", "enqueue_nd_range_kernel<N>",
     "enqueue_1d_range_kernel", "enqueue_task"}

Resources(c) ==
    IF c.op \in TwoResourceOps THEN {c.args[1], c.args[2]}
    ELSE IF c.op \in OneResourceOps THEN {c.args[1]}
    ELSE {}

\* C11: a call of an enqueue operation that takes buffers, images or a
\* kernel reaches the backend only if each of them belongs to the context
\* of the queue.
ResourcesInQueueContext ==
    (IsCall /\ last.reached) =>
        \A r \in Resources(last) : r.ctx = get_context(last.pre_queue)

GatedOps == {"enqueue_read_buffer_rect", "enqueue_write_buffer_rect",
             "enqueue_copy_buffer_rect", "enqueue_fill_buffer",
             "enqueue_fill_image", "enqueue_fill_image<N>",
             "enqueue_migrate_memory_objects", "enqueue_barrier(events)",
             "enqueue_marker(events)", "enqueue_svm_memcpy",
             "enqueue_svm_fill", "enqueue_svm_free", "enqueue_svm_map",
             "enqueue_svm_unmap"}

\* what the caller catches: the exception's type and the code it carries
Caught(c) == [type |-> c.outcome, code |-> c.code]

\* what a version gate throws
CapabilityError == [type |-> "opencl_error", code |-> CL_INVALID_DEVICE]

\* C13: for every version-gated operation, an error raised because the
\* backend returned a non-success status differs, in what the caller
\* catches, from the error the version gate raises.
CapabilityErrorDistinct ==
    (IsCall /\ last.op \in GatedOps /\ last.cause = "backend") =>
        Caught(last) # CapabilityError

UncheckedOps == {"flush", "finish", "enqueue_barrier", "enqueue_barrier(events)"}

\* C14: a non-success status returned by the backend call of flush(),
\* finish(), enqueue_barrier() or enqueue_barrier(wait list) is raised to
\* the caller as an error carrying that status.
NoFailureSuppressed ==
    (IsCall /\ last.op \in UncheckedOps /\ last.reached
        /\ last.ret # CL_SUCCESS) =>
            /\ last.outcome = "opencl_error"
            /\ last.code = last.ret

(***************************************************************************)
(* operator== and operator!=.                                              *)
(***************************************************************************)
\* the members of object o
Object(o) == [m_queue |-> m_queue[o], m_version |-> m_version[o]]

\* a default-constructed command_queue
NullQueue == [m_queue |-> 0, m_version |-> 0]

\* an equality that looks at both members
operator_eq_members(a, b) == a = b

operator_eq(a, b) == a.m_queue = b.m_queue

operator_ne(a, b) == a.m_queue # b.m_queue

\* C15: a == b holds exactly when a and b hold the same native id, whatever
\* their cached versions, and a != b is its negation; a copy equals its
\* source, and the source of a move equals a null queue.
EqualityIsIdEquality ==
    /\ \A o \in Obj, p \in Obj :
           (live[o] /\ live[p]) =>
               /\ operator_eq(Object(o), Object(p)) <=> (m_queue[o] = m_queue[p])
               /\ operator_ne(Object(o), Object(p))
                      <=> ~operator_eq(Object(o), Object(p))
    /\ \A o \in Obj :
           live[o] => (operator_eq(Object(o), NullQueue) <=> m_queue[o] = 0)
    /\ (last.kind = "handle" /\ last.op \in {"ctor_copy", "copy_assign"}) =>
           operator_eq(Object(last.self), Object(last.other))
    /\ (last.kind = "handle" /\ last.op \in {"ctor_move", "move_assign"}) =>
           operator_eq(Object(last.other), NullQueue)

EqualityWitness ==
    \E o \in Obj, p \in Obj :
        /\ live[o] /\ live[p] /\ o # p
        /\ m_queue[o] # 0
        /\ m_version[o] # m_version[p]
        /\ operator_eq(Object(o), Object(p))
        /\ ~operator_ne(Object(o), Object(p))

CreateStep ==
    (last = NoCall /\ last'.kind = "create") =>
        LET c == last' IN
        IF c.threw
        THEN /\ c.code # CL_SUCCESS
             /\ c.queue = 0
             /\ ~live'[c.self]
             /\ c.calls = <<>>
             /\ refs' = refs
        ELSE /\ live'[c.self]
             /\ m_queue'[c.self] # 0
             /\ get_context(m_queue'[c.self]) = c.context
             /\ get_device(m_queue'[c.self]) = c.device

\* C16: a command_queue constructed from (context, device) with a
\* successful backend creation reports that context from get_context() and
\* that device from get_device(); when the backend returns no queue the
\* constructor throws opencl_error with the backend's error code, no object
\* comes to exist and no retain or release is made.
CreatedQueueReportsInputs == [][CreateStep]_vars

CreatedQueueWitness ==
    /\ last.kind = "create" /\ ~last.threw
    /\ last.context = NCtx /\ last.device = NDev
    /\ get_context(m_queue[last.self]) = NCtx
    /\ get_device(m_queue[last.self]) = NDev

(***************************************************************************)
(* check_device_version(major, minor): major * 100 + minor <= get_version()*)
(***************************************************************************)
check_device_version(o, check) ==
    /\ live[o]
    /\ LET v == ResolvedVersion(m_queue[o], m_version[o])
       IN /\ m_version' = [m_version EXCEPT ![o] = v]
          /\ last' = [kind |-> "version", op |-> "check_device_version",
                      self |-> o,
                      pre_queue |-> m_queue[o], pre_version |-> m_version[o],
                      queries |-> IF VersionQueried(m_version[o]) THEN 1 ELSE 0,
                      threw |-> VersionQueried(m_version[o])
                                    /\ get_device(m_queue[o]) = 0,
                      ret |-> check <= v]
    /\ UNCHANGED <<live, m_queue, refs, pending, nsub>>
    /\ DataFrame

(***************************************************************************)
(* The frame model: the queue object and one peer, with every lifecycle    *)
(* operation between them and every operation of a command_queue on        *)
(* either, the buffer operations on a whole buffer.                        *)
(***************************************************************************)
Peer == TheQueue + 1

FrameObj == {TheQueue, Peer}

Lifecycle ==
    \/ \E o \in FrameObj : command_queue_null(o)
    \/ \E o \in FrameObj, q \in HandleQueues, r \in BOOLEAN :
           command_queue_raw(o, q, r)
    \/ \E o \in FrameObj, c \in Contexts, d \in Devices, e \in Status :
           /\ QueueOf(c, d) \in HandleQueues
           /\ command_queue_ctx(o, c, d, e = CL_SUCCESS, e)
    \/ \E o \in FrameObj, p \in FrameObj : command_queue_copy(o, p)
    \/ \E o \in FrameObj, p \in FrameObj : copy_assign(o, p)
    \/ \E o \in FrameObj, p \in FrameObj : command_queue_move(o, p)
    \/ \E o \in FrameObj, p \in FrameObj : move_assign(o, p)
    \/ \E o \in FrameObj : destroy(o)

Queries(o) ==
    \/ get_version(o)
    \/ \E i \in Devices : check_device_version(o, Versions[i])

WholeBufferOps(o, has_event) ==
    \E b \in Buffers :
        \/ enqueue_read_buffer(o, b, 0, b.size, 1, <<>>, has_event)
        \/ has_event /\ enqueue_read_buffer_async(o, b, 0, b.size, 1, <<>>)
        \/ enqueue_write_buffer(o, b, 0, b.size, 1, <<>>, has_event)
        \/ has_event /\ enqueue_write_buffer_async(o, b, 0, b.size, 1, <<>>)
        \/ enqueue_read_buffer_rect(o, b, 1, <<>>, has_event)
        \/ enqueue_write_buffer_rect(o, b, 1, <<>>, has_event)
        \/ enqueue_fill_buffer(o, b, 0, b.size, <<>>, has_event)
        \/ has_event /\ enqueue_fill_buffer_async(o, b, 0, b.size, <<>>)
        \/ enqueue_map_buffer(o, b, 0, b.size, <<>>, has_event)
        \/ enqueue_copy_buffer(o, b, b, 0, 0, b.size, <<>>, has_event)
        \/ has_event /\ enqueue_copy_buffer_async(o, b, b, 0, 0, b.size, <<>>)
        \/ enqueue_copy_buffer_rect(o, b, b, <<>>, has_event)

FrameOps(o) ==
    /\ nsub < MaxCmds
    /\ DataFrame
    /\ \E has_event \in BOOLEAN :
        \/ WholeBufferOps(o, has_event)
        \/ ImageOps(o, <<>>, has_event)
        \/ KernelOps(o, <<>>, has_event)
        \/ SyncOps(o, <<>>, has_event)
        \/ SvmOps(o, <<>>, has_event)

NextFrame ==
    \/ Idle /\ Lifecycle
    \/ Idle /\ \E o \in FrameObj : Queries(o)
    \/ Idle /\ \E o \in FrameObj : FrameOps(o)
    \/ BackendComplete /\ DataFrame
    \/ Proceed

SpecFrame == Init /\ [][NextFrame]_vars

FrameStep ==
    /\ \A o \in FrameObj :
           (live[o] /\ live'[o] /\ m_queue[o] # 0 /\ m_queue'[o] # m_queue[o]) =>
               /\ last'.kind = "handle"
               /\ \/ last'.op \in {"copy_assign", "move_assign"} /\ last'.self = o
                  \/ last'.op \in {"ctor_move", "move_assign"} /\ last'.other = o
    /\ (last = NoCall /\ last'.kind \in {"enqueue", "version"}) =>
           /\ m_queue' = m_queue
           /\ live' = live
           /\ \A o \in FrameObj :
                  /\ get_context(m_queue'[o]) = get_context(m_queue[o])
                  /\ get_device(m_queue'[o]) = get_device(m_queue[o])

\* C17: no enqueue operation, flush, finish, get_version or
\* check_device_version changes an object's native id, and so its context
\* and device; the native id of a living object that holds a non-null one
\* changes only in a copy assignment or move assignment to that object, or
\* in a move construction or move assignment from it.
QueueIdFrame == [][FrameStep]_vars

QueueIdFrameWitness ==
    /\ IsCall /\ last.op = "finish" /\ last.reached
    /\ m_queue[last.self] = last.pre_queue
    /\ \E p \in FrameObj : p # last.self /\ live[p] /\ m_queue[p] = 0
                               /\ m_version[p] # 0

\* C12: a call of an enqueue operation, flush or finish on an object whose
\* native id is null is stopped by an assertion and makes no backend call.
NullQueueAsserted ==
    (IsCall /\ last.pre_queue = 0) =>
        /\ ~last.reached
        /\ last.outcome = "assert"

(***************************************************************************)
(* The copy model: the data of the buffers.  A buffer of the backend has a *)
(* context and bytes; a freshly created buffer holds any bytes.  Every     *)
(* submitted command is kept as the backend call it was (queued), and the  *)
(* backend runs the commands of the in-order queue one after the other.    *)
(***************************************************************************)
Bytes == {0, 1}

Contents == [1..BufLen -> Bytes]

\* the buffer object of buffer i of the backend
BufferOf(i) ==
    [ctx |-> memory[i].ctx, size |-> Len(memory[i].bytes), id |-> i]

\* bytes with data written over them from offset on
Overwrite(bytes, offset, data) ==
    [i \in 1..Len(bytes) |->
        IF i > offset /\ i <= offset + Len(data) THEN data[i - offset]
        ELSE bytes[i]]

\* size bytes from offset on
Slice(bytes, offset, size) == SubSeq(bytes, offset + 1, offset + size)

\* what the backend does to the buffers when it runs a submitted command
Exec(m, c) ==
    CASE c.cmd.api = "clEnqueueCopyBuffer" ->
             LET src == c.cmd.args[1].id
                 dst == c.cmd.args[2].id
                 data == Slice(m[src].bytes, c.cmd.args[3], c.cmd.args[5])
             IN [m EXCEPT ![dst].bytes = Overwrite(@, c.cmd.args[4], data)]
      [] OTHER -> m

RECURSIVE ExecAll(_, _, _)
ExecAll(m, cmds, ids) ==
    IF ids = <<>> THEN m
    ELSE ExecAll(Exec(m, cmds[Head(ids)]), cmds, Tail(ids))

\* buffer(context, size), twice: buffers A and B, their content undefined
create_buffers(context, a, b) ==
    /\ memory = <<>>
    /\ memory' = <<[ctx |-> context, bytes |-> a],
                   [ctx |-> context, bytes |-> b]>>
    /\ UNCHANGED <<live, m_queue, m_version, refs, pending, nsub, last,
                   queued, trace, walk, threads>>

\* The data side of a call just made (last'): a submitted command is
\* queued; if it is complete at return, so is every command before it.
\* base is the buffers at the call, seen the data the caller has in hand
\* after it.
Submitted(base, seen) ==
    IF last'.submitted
    THEN /\ queued' = Append(queued, [cmd |-> last'.cmd])
         /\ memory' = IF last'.complete
                      THEN ExecAll(base, queued', Append(pending, nsub'))
                      ELSE base
         /\ trace' = Append(trace, seen)
         /\ UNCHANGED <<walk, threads>>
    ELSE DataFrame

\* what a read of buffer a has put at host_ptr when the call returns
ReadBack(a) ==
    IF last'.complete
    THEN Slice(memory'[a].bytes, last'.cmd.args[2], last'.cmd.args[3])
    ELSE <<>>

read_data(o, a) ==
    /\ enqueue_read_buffer(o, BufferOf(a), 0, Len(memory[a].bytes), 1,
                           <<>>, FALSE)
    /\ Submitted(memory,
                 [op |-> "read", buf |-> a, bytes |-> ReadBack(a)])

\* the backend refuses a copy of a buffer onto itself (the regions overlap)
copy_data(o, a, b) ==
    /\ enqueue_copy_buffer(o, BufferOf(a), BufferOf(b), 0, 0,
                           Len(memory[a].bytes), <<>>, FALSE)
    /\ a = b => last'.ret # CL_SUCCESS
    /\ Submitted(memory, [op |-> "copy", src |-> a, dst |-> b])

\* buffer::clone(queue): a new buffer of the context and size of this one,
\* and enqueue_copy_buffer(*this, copy, 0, 0, size()); a call that does not
\* return gives the caller no buffer.
clone(o, a, undefined) ==
    LET size == Len(memory[a].bytes)
        id == Len(memory) + 1
        copy == [ctx |-> memory[a].ctx, size |-> size, id |-> id]
        created == Append(memory, [ctx |-> copy.ctx, bytes |-> undefined])
    IN /\ Len(memory) = Len(<<"A", "B">>)
       /\ enqueue_copy_buffer(o, BufferOf(a), copy, 0, 0, size, <<>>, FALSE)
       /\ Submitted(created,
                    [op |-> "clone", src |-> a, dst |-> id,
                     size |-> copy.size])

\* the backend runs the oldest pending command
Execute ==
    /\ BackendComplete
    /\ memory' = Exec(memory, queued[Head(pending)])
    /\ UNCHANGED <<queued, trace, walk, threads>>

CopyCmds == MaxCmds + 1

DataOps(o) ==
    /\ live[o]
    /\ nsub < CopyCmds
    /\ \E a \in 1..Len(memory) :
           \/ read_data(o, a)
           \/ \E b \in 1..Len(memory) : copy_data(o, a, b)
           \/ \E undefined \in Contents : clone(o, a, undefined)

NextCopy ==
    \/ Idle /\ command_queue_raw(TheQueue, QueueOf(1, 1), TRUE)
    \/ /\ Idle /\ live[TheQueue]
       /\ \E a \in Contents, b \in Contents :
              create_buffers(get_context(m_queue[TheQueue]), a, b)
    \/ Idle /\ DataOps(TheQueue)
    \/ Execute
    \/ Proceed

SpecCopy == Init /\ [][NextCopy]_vars

\* C18: when the caller reads buffer A synchronously, then copies A to B
\* with enqueue_copy_buffer(A, B, 0, 0, N), then reads B synchronously, the
\* second read returns the bytes of the first; and reading, one after the
\* other, a buffer and the buffer clone() made of it returns the same bytes,
\* the clone having the size of its source.
CopyRoundTrip ==
    \A i \in 1..(Len(trace) - 2) :
        LET x == trace[i]
            y == trace[i + 1]
            z == trace[i + 2]
        IN /\ (/\ x.op = "read" /\ y.op = "copy" /\ z.op = "read"
               /\ y.src = x.buf /\ z.buf = y.dst) => z.bytes = x.bytes
           /\ (/\ x.op = "clone" /\ y.op = "read" /\ z.op = "read"
               /\ {y.buf, z.buf} = {x.src, x.dst}) =>
                  /\ y.bytes = z.bytes
                  /\ Len(y.bytes) = x.size /\ Len(z.bytes) = x.size

CopyRoundTripWitness ==
    /\ Len(trace) >= 3
    /\ LET x == trace[Len(trace) - 2]
           y == trace[Len(trace) - 1]
           z == trace[Len(trace)]
       IN /\ x.op = "read" /\ y.op = "copy" /\ z.op = "read"
          /\ y.src = x.buf /\ z.buf = y.dst /\ y.src # y.dst
          /\ z.bytes = x.bytes
          /\ \E i \in 1..BufLen : z.bytes[i] # 0

(***************************************************************************)
(* enqueue_walk_image: map the region of the image, call the per-element   *)
(* function on each element, unmap.  The call is followed step by step:    *)
(* walk.pc is where the calling thread stands in it.                       *)
(***************************************************************************)
MaxDim == 3        \* largest width, height, depth and region extent tried

NULL == <<>>

Images ==
    {[ctx |-> c, width |-> MaxDim, height |-> hd[1], depth |-> hd[2]] :
        c \in Contexts, hd \in {<<0, 0>>, <<MaxDim, 0>>, <<MaxDim, MaxDim>>}}

Origins == {NULL} \cup [1..3 -> 0..1]

Regions == {NULL} \cup [1..3 -> 1..MaxDim]

ElementSizes == {1, 2}

\* bytes the backend may leave after a row and after a slice
Paddings == {0, 1}

\* the pointer the map returns
MappedBase == 64

\* the user event of the asynchronous variant
UserEvent == MaxCmds + 1

Max(a, b) == IF a >= b THEN a ELSE b

\* for(w = origin[0]; w < region[0]; ++w) { f(pElem, w, h, d); pElem += element_size; }
RECURSIVE WalkRow(_, _, _, _, _, _)
WalkRow(pElem, w, h, d, region3, element_size) ==
    IF w < region3[1]
    THEN <<[pElem |-> pElem, x |-> w, y |-> h, z |-> d]>>
         \o WalkRow(pElem + element_size, w + 1, h, d, region3, element_size)
    ELSE <<>>

\* for(h = origin[1]; h < region[1]; ++h) { ...row...; pImage1D += row_pitch; }
RECURSIVE WalkSlice(_, _, _, _, _, _, _)
WalkSlice(pImage1D, h, d, origin3, region3, row_pitch, element_size) ==
    IF h < region3[2]
    THEN WalkRow(pImage1D, origin3[1], h, d, region3, element_size)
         \o WalkSlice(pImage1D + row_pitch, h + 1, d, origin3, region3,
                      row_pitch, element_size)
    ELSE <<>>

\* for(d = origin[2]; d < region[2]; ++d) { ...slice...; pImage2D += slice_pitch; }
RECURSIVE WalkVolume(_, _, _, _, _, _, _)
WalkVolume(pImage2D, d, origin3, region3, row_pitch, slice_pitch, element_size) ==
    IF d < region3[3]
    THEN WalkSlice(pImage2D, origin3[2], d, origin3, region3, row_pitch,
                   element_size)
         \o WalkVolume(pImage2D + slice_pitch, d + 1, origin3, region3,
                       row_pitch, slice_pitch, element_size)
    ELSE <<>>

\* a walk that takes rows and slices to follow one another without padding
walk_image_contiguous(pImage3D, origin3, region3, row_pitch, slice_pitch, element_size) ==
    LET row == element_size * Max(0, region3[1] - origin3[1])
    IN WalkVolume(pImage3D, origin3[3], origin3, region3,
                  row, row * Max(0, region3[2] - origin3[2]), element_size)

\* the calls of the per-element function, in order
walk_image(pImage3D, origin3, region3, row_pitch, slice_pitch, element_size) ==
    WalkVolume(pImage3D, origin3[3], origin3, region3, row_pitch, slice_pitch,
               element_size)

map_image(o, image, origin3, region3, events, has_event) ==
    Method("enqueue_map_image",
           <<Check(m_queue[o] # 0),
             Check(image.ctx = get_context(m_queue[o]))>>,
           "clEnqueueMapImage", Blocking(has_event),
           <<image, origin3, region3>>, events, has_event, TRUE)

unmap_buffer(o, mem_object, mapped_ptr, events, has_event) ==
    Method("enqueue_unmap_buffer",
           <<Check(mem_object.ctx = get_context(m_queue[o])),
             Check(m_queue[o] # 0)>>,
           "clEnqueueUnmapMemObject", NoFlag,
           <<mem_object, mapped_ptr>>, events, has_event, TRUE)

\* the backend maps a region that lies within the image, and no other
Fits(image, origin3, region3) ==
    LET dims == <<image.width, Max(1, image.height), Max(1, image.depth)>>
    IN \A i \in 1..3 : origin3[i] + region3[i] <= dims[i]

WalkFrame == UNCHANGED <<memory, queued, trace, threads>>

\* extents<3> origin3(0); if (origin) the caller's three values
Origin3(origin) == IF origin = NULL THEN <<0, 0, 0>> ELSE origin

\* a region that takes the height and depth of the image as they are
Region3_asStored(image, region) ==
    IF region = NULL THEN <<image.width, image.height, image.depth>>
    ELSE region

\* region3 = (width, max(1, height), max(1, depth)); if (region) the
\* caller's three values
Region3(image, region) ==
    IF region = NULL
    THEN <<image.width, Max(1, image.height), Max(1, image.depth)>>
    ELSE region

\* a wait list for the unmap that is the caller's own
UnmapWait_callers(events, has_event) == events

\* wait_list unmap_wait; if (pevent) unmap_wait.insert(user_ev);
UnmapWait(events, has_event) == IF has_event THEN <<UserEvent>> ELSE <<>>

\* func with the user event set complete before the walk
FuncSteps_statusFirst(has_event) ==
    IF has_event THEN <<"set_status", "walk_elements">> ELSE <<"walk_elements">>

\* func with the user event set complete before and after the walk
FuncSteps_statusTwice(has_event) ==
    IF has_event THEN <<"set_status", "walk_elements", "set_status">>
    ELSE <<"walk_elements">>

\* the statements of func in program order: the three loops, then
\* if (pevent) user_ev.set_status(event::complete)
FuncSteps(has_event) ==
    IF has_event THEN <<"walk_elements", "set_status">> ELSE <<"walk_elements">>

\* the map command of walk w is complete
MapComplete(w) == \A i \in 1..Len(pending) : pending[i] # w.map_cmd

\* one statement of func, run by a thread
FuncStep(w, step, thread) ==
    IF step = "walk_elements"
    THEN [w EXCEPT !.calls = walk_image(w.pImage3D, w.origin3, w.region3,
                                        w.row_pitch, w.slice_pitch,
                                        w.element_size),
                   !.walks = @ + 1,
                   !.walked_by = Append(@, thread),
                   !.walked_after_map = MapComplete(w)]
    ELSE [w EXCEPT !.user_ev = "complete",
                   !.sets = Append(@, [status |-> "complete",
                                       thread |-> thread,
                                       walks |-> w.walks])]

RECURSIVE RunSteps(_, _, _)
RunSteps(w, steps, thread) ==
    IF steps = <<>> THEN w
    ELSE RunSteps(FuncStep(w, Head(steps), thread), Tail(steps), thread)

\* func(), all of it
Func(w, thread) == RunSteps(w, FuncSteps(w.has_event), thread)

\* if (pevent) pmap_event->set_callback(func)
Deferred_never(has_event) == FALSE

Deferred(has_event) == has_event

\* From the entry to the return of enqueue_map_image: the assertions, the
\* origin and region used, the user event of the asynchronous variant, the
\* map.  The backend reports the pitches: a row of the region and what it
\* pads it with, a slice and what it pads it with.
walk_map(o, image, fn, origin, region, events, has_event, element_size, row_pad, slice_pad) ==
    LET origin3 == Origin3(origin)
        region3 == Region3(image, region)
        row_pitch == element_size * region3[1] + row_pad
        slice_pitch == row_pitch * region3[2] + slice_pad
        asserted == m_queue[o] # 0 /\ image.ctx = get_context(m_queue[o])
        \* a call that does not get past the map
        call == [pc |-> "idle", fn |-> fn, has_event |-> has_event,
                 user_ev |-> IF asserted /\ has_event THEN "submitted"
                             ELSE "none",
                 sets |-> <<>>,
                 callback |-> "none", fdone |-> 0,
                 walks |-> 0, walked_by |-> <<>>, walked_after_map |-> FALSE,
                 calls |-> <<>>,
                 unmaps |-> <<>>, unmap_cmd |-> 0, unmap_started |-> FALSE]
        mapped == [pc |-> "mapped", self |-> o, image |-> image,
                   origin |-> origin, region |-> region, events |-> events,
                   origin3 |-> origin3, region3 |-> region3,
                   unmap_wait |-> UnmapWait(events, has_event),
                   pImage3D |-> MappedBase, row_pitch |-> row_pitch,
                   slice_pitch |-> slice_pitch,
                   element_size |-> element_size]
    IN /\ IF asserted
          THEN /\ Run(o, map_image(o, image, origin3, region3, events, has_event),
                      "sync")
               /\ Fits(image, origin3, region3) \/ last'.ret # CL_SUCCESS
               /\ walk' = IF last'.outcome = "ok"
                          THEN [map_event |-> last'.event_out,
                                map_cmd |-> nsub',
                                map |-> last'.cmd] @@ mapped @@ call
                          ELSE [call EXCEPT !.pc = "thrown"]
          ELSE /\ walk' = [call EXCEPT !.pc = "assert"]
               /\ UNCHANGED <<live, m_queue, m_version, refs, pending, nsub,
                              last>>
       /\ WalkFrame

\* if (pevent) pmap_event->set_callback(func); else func();
walk_func ==
    /\ walk.pc = "mapped"
    /\ walk' = IF Deferred(walk.has_event)
               THEN [walk EXCEPT !.pc = "walked", !.callback = "registered"]
               ELSE [Func(walk, "caller") EXCEPT !.pc = "walked"]
    /\ UNCHANGED <<live, m_queue, m_version, refs, pending, nsub, last>>
    /\ WalkFrame

\* The backend's thread runs the callback of the map's event once the map
\* is complete: func, a statement at a time.
map_callback ==
    /\ walk.pc \in {"walked", "unmapped", "thrown_unmap"}
    /\ walk.callback = "registered"
    /\ MapComplete(walk)
    /\ LET steps == FuncSteps(walk.has_event)
           w == FuncStep(walk, steps[walk.fdone + 1], "callback")
       IN walk' = [w EXCEPT !.fdone = @ + 1,
                            !.callback = IF walk.fdone + 1 = Len(steps)
                                         THEN "called" ELSE @]
    /\ UNCHANGED <<live, m_queue, m_version, refs, pending, nsub, last>>
    /\ WalkFrame

\* the events of a wait list that are user events are complete
Ready(w, events) ==
    \A i \in 1..Len(events) : events[i] = UserEvent => w.user_ev = "complete"

\* enqueue_unmap_buffer(image, pImage3D, unmap_wait, pevent).  The backend
\* does not run the unmap before the events of its wait list are complete.
walk_unmap ==
    /\ walk.pc = "walked"
    /\ Run(walk.self,
           unmap_buffer(walk.self, walk.image, walk.pImage3D, walk.unmap_wait,
                        walk.has_event),
           "sync")
    /\ last'.complete => Ready(walk, walk.unmap_wait)
    /\ walk' = [walk EXCEPT !.pc = IF last'.outcome = "ok" THEN "unmapped"
                                   ELSE "thrown_unmap",
                            !.unmaps = IF last'.reached
                                       THEN Append(@, last'.cmd) ELSE @,
                            !.unmap_cmd = IF last'.submitted THEN nsub' ELSE 0,
                            !.unmap_started = last'.complete]
    /\ WalkFrame

\* The in-order backend completes its oldest command; the unmap waits for
\* the events of its wait list.
walk_backend ==
    /\ pending # <<>>
    /\ Head(pending) = walk.unmap_cmd => Ready(walk, walk.unmap_wait)
    /\ pending' = Tail(pending)
    /\ walk' = IF Head(pending) = walk.unmap_cmd
               THEN [walk EXCEPT !.unmap_started = TRUE] ELSE walk
    /\ UNCHANGED <<live, m_queue, m_version, refs, nsub, last>>
    /\ WalkFrame

\* a region is tried on the images that have a depth
RegionsOf(image) == IF image.depth = 0 THEN {NULL} ELSE Regions

enqueue_walk_image(o) ==
    \/ /\ walk.pc = "idle"
       /\ live[o]
       /\ \E image \in Images, origin \in Origins,
             events \in WaitLists, has_event \in BOOLEAN,
             element_size \in ElementSizes, row_pad \in Paddings,
             slice_pad \in Paddings :
              \E region \in RegionsOf(image) :
                  walk_map(o, image, "walk_elemets", origin, region, events,
                           has_event, element_size, row_pad, slice_pad)
    \/ walk_func
    \/ walk_unmap

\* char m_fill_color[16]
ColorLen == 16

\* the bytes at fill_color
FillColor == [b \in 1..ColorLen |-> b]

\* fillc::operator(): std::copy(m_fill_color, m_fill_color + m_element_size, pelem)
fillc(pelem, m_element_size) ==
    [a \in pelem..(pelem + m_element_size - 1) |-> FillColor[a - pelem + 1]]

\* enqueue_rawfill_image_walking: fillc f(element_size, fill_color), then
\* enqueue_walk_image(image, f, map_write, origin, region, events, event_),
\* whose later steps are those of enqueue_walk_image
enqueue_rawfill_image_walking(o) ==
    /\ walk.pc = "idle"
    /\ live[o]
    /\ \E image \in Images, origin \in Origins,
          events \in WaitLists, has_event \in BOOLEAN,
          element_size \in ElementSizes, row_pad \in Paddings,
          slice_pad \in Paddings :
           \E region \in RegionsOf(image) :
               walk_map(o, image, "fillc", origin, region, events,
                        has_event, element_size, row_pad, slice_pad)

NextWalk ==
    \/ Idle /\ \E r \in BOOLEAN : command_queue_raw(TheQueue, QueueOf(1, 1), r)
    \/ enqueue_walk_image(TheQueue)
    \/ enqueue_rawfill_image_walking(TheQueue)
    \/ map_callback
    \/ walk_backend

SpecWalk == Init /\ [][NextWalk]_vars

\* the walk has run: directly, or as the callback of the map's event
Walked == walk.pc # "idle" /\ walk.walks > 0

\* C19: enqueue_walk_image calls the per-element function exactly once for
\* every element of the region it mapped: rx*ry*rz calls for any origin
\* (ox, oy, oz) and region (rx, ry, rz), whether or not the origin is zero.
WalkCoversRegion ==
    Walked =>
        Len(walk.calls) = walk.region3[1] * walk.region3[2] * walk.region3[3]

\* the elements of a row, rows of a slice and slices the loops run over
Extent(w, i) == Max(0, w.region3[i] - w.origin3[i])

\* C20: the walk runs depth outermost, height in the middle and width
\* innermost, and the address passed for the i-th element of the j-th row of
\* the k-th slice, counted from the start of the walk, is
\* mapped_base + k*slice_pitch + j*row_pitch + i*element_size, with the
\* pitches the map reported.
WalkOrderAndAddress ==
    Walked =>
        LET nx == Extent(walk, 1)
            ny == Extent(walk, 2)
        IN \A n \in 1..Len(walk.calls) :
            LET i == (n - 1) % nx
                j == ((n - 1) \div nx) % ny
                k == (n - 1) \div (nx * ny)
                c == walk.calls[n]
            IN /\ c.x = walk.origin3[1] + i
               /\ c.y = walk.origin3[2] + j
               /\ c.z = walk.origin3[3] + k
               /\ k < Extent(walk, 3)
               /\ c.pElem = walk.pImage3D + k * walk.slice_pitch
                                + j * walk.row_pitch + i * walk.element_size

\* a walk over two slices of two rows of two elements, rows and slices padded
WalkOrderAndAddressWitness ==
    /\ Walked
    /\ \A i \in 1..3 : Extent(walk, i) >= 2
    /\ walk.row_pitch > walk.element_size * walk.region3[1]
    /\ walk.slice_pitch > walk.row_pitch * walk.region3[2]
    /\ walk.element_size > 1
    /\ Len(walk.calls) >= 8


\* the call got past the map
Mapped == walk.pc \in {"mapped", "walked", "unmapped", "thrown_unmap"}

\* the call has returned or thrown
WalkOver == walk.pc \in {"unmapped", "thrown_unmap", "thrown", "assert"}

\* C21: Under every interleaving of the calling thread, the callback thread
\* and the backend, the unmap of the asynchronous variant does not start
\* before the walk has made its last call: its wait list holds the user
\* event, which the callback sets complete only after the walk.  In the
\* synchronous variant the walk is over before the unmap is submitted.
UnmapAfterWalk ==
    walk.pc # "idle" =>
        /\ walk.unmap_started => walk.walks > 0
        /\ \A i \in 1..Len(walk.sets) : walk.sets[i].walks > 0
        /\ \A i \in 1..Len(walk.unmaps) :
              IF walk.has_event
              THEN \E j \in 1..Len(walk.unmaps[i].events) :
                       walk.unmaps[i].events[j] = UserEvent
              ELSE walk.walks > 0

\* an asynchronous walk whose unmap has run
UnmapAfterWalkWitness ==
    /\ walk.pc = "unmapped"
    /\ walk.has_event
    /\ walk.unmap_started
    /\ Len(walk.calls) >= 2

\* C22: The walk never starts before the map is complete.  Synchronous: the
\* map is submitted blocking and the calling thread walks after it returns.
\* Asynchronous: the map is submitted non-blocking, the call path of
\* enqueue_walk_image does not walk, and the walk runs exactly once, from
\* the callback registered on the map's event.
WalkAfterMap ==
    walk.pc # "idle" =>
        /\ walk.walks <= 1
        /\ walk.walks > 0 => walk.walked_after_map
        /\ walk.walked_by = IF walk.walks = 0 THEN <<>>
                            ELSE IF walk.has_event THEN <<"callback">>
                            ELSE <<"caller">>
        /\ Mapped => walk.map.blocking = IF walk.has_event THEN "CL_FALSE"
                                         ELSE "CL_TRUE"
        /\ walk.callback = "called" => walk.walks = 1
        /\ walk.callback # "none" => walk.has_event /\ Mapped
        /\ (~walk.has_event /\ walk.pc \in {"walked", "unmapped", "thrown_unmap"})
               => walk.walks = 1

\* the callback has walked while the caller has not yet submitted the unmap
WalkAfterMapWitness ==
    /\ walk.pc = "walked"
    /\ walk.has_event
    /\ walk.walked_by = <<"callback">>
    /\ Len(walk.calls) >= 2

\* C23: The user event of the asynchronous variant starts non-complete, is
\* set complete exactly once, by the callback of the map's event and after
\* the walk, and is set to nothing else; the synchronous variant creates no
\* user event and sets no status.
UserEventSetOnce ==
    walk.pc # "idle" =>
        /\ Len(walk.sets) <= 1
        /\ \A i \in 1..Len(walk.sets) :
              /\ walk.sets[i].status = "complete"
              /\ walk.sets[i].thread = "callback"
              /\ walk.sets[i].walks = 1
        /\ walk.user_ev = IF ~walk.has_event \/ walk.pc = "assert" THEN "none"
                          ELSE IF walk.sets = <<>> THEN "submitted"
                          ELSE "complete"
        /\ walk.callback = "called" => Len(walk.sets) = 1
        /\ ~walk.has_event => walk.sets = <<>>

\* the callback is over and the user event is complete
UserEventSetOnceWitness ==
    /\ walk.pc # "idle"
    /\ walk.has_event
    /\ walk.callback = "called"
    /\ walk.user_ev = "complete"

\* C24: A null origin gives (0, 0, 0), a null region gives (width,
\* max(1, height), max(1, depth)); an origin or region that is given is
\* used unchanged.  The map call and the walk use the same origin and region.
OriginRegionDefaults ==
    Mapped =>
        LET o3 == IF walk.origin = NULL THEN <<0, 0, 0>> ELSE walk.origin
            r3 == IF walk.region = NULL
                  THEN <<walk.image.width,
                         IF walk.image.height < 1 THEN 1 ELSE walk.image.height,
                         IF walk.image.depth < 1 THEN 1 ELSE walk.image.depth>>
                  ELSE walk.region
        IN /\ walk.map.args = <<walk.image, o3, r3>>
           /\ \A n \in 1..Len(walk.calls) :
                 /\ o3[1] <= walk.calls[n].x /\ walk.calls[n].x < r3[1]
                 /\ o3[2] <= walk.calls[n].y /\ walk.calls[n].y < r3[2]
                 /\ o3[3] <= walk.calls[n].z /\ walk.calls[n].z < r3[3]
           /\ walk.calls # <<>> =>
                 /\ <<walk.calls[1].x, walk.calls[1].y, walk.calls[1].z>> = o3
                 /\ LET c == walk.calls[Len(walk.calls)]
                    IN <<c.x + 1, c.y + 1, c.z + 1>> = r3

\* a walk of an image without height or depth, neither origin nor region given
OriginRegionDefaultsWitness ==
    /\ Mapped
    /\ walk.origin = NULL /\ walk.region = NULL
    /\ walk.image.height = 0
    /\ walk.walks > 0
    /\ walk.calls # <<>>


\* C30: When the map succeeds, enqueue_walk_image makes exactly one unmap
\* call, on the queue of the map and for the pointer the map returned: with
\* an empty wait list and no event in the synchronous variant, with the user
\* event alone as wait list and the caller's event in the asynchronous one;
\* the caller's wait list goes to the map only.  When the map fails there is
\* no walk, no callback and no unmap.
UnmapOnce ==
    walk.pc # "idle" =>
        /\ Mapped =>
              /\ walk.map.events = walk.events
              /\ walk.map.has_event = walk.has_event
        /\ walk.pc \in {"mapped", "walked"} => walk.unmaps = <<>>
        /\ walk.pc \in {"unmapped", "thrown_unmap"} =>
              walk.unmaps =
                  <<[api |-> "clEnqueueUnmapMemObject",
                     queue |-> walk.map.queue,
                     blocking |-> NoFlag,
                     args |-> <<walk.image, walk.pImage3D>>,
                     events |-> IF walk.has_event THEN <<UserEvent>> ELSE <<>>,
                     has_event |-> walk.has_event]>>
        /\ walk.pc \in {"thrown", "assert"} =>
              /\ walk.walks = 0 /\ walk.calls = <<>>
              /\ walk.callback = "none"
              /\ walk.unmaps = <<>>

\* an asynchronous walk with a wait list of the caller, unmapped
UnmapOnceWitness ==
    /\ walk.pc = "unmapped"
    /\ walk.has_event
    /\ walk.events # <<>>
    /\ walk.unmap_cmd # 0


\* the addresses of the mapped region, from the pointer the map returned
MappedRange(w) ==
    w.pImage3D .. (w.pImage3D + w.slice_pitch * w.region3[3] - 1)

\* memory after the per-element function has been applied to each call
RECURSIVE WriteAll(_, _, _)
WriteAll(mem, calls, element_size) ==
    IF calls = <<>> THEN mem
    ELSE WriteAll(fillc(Head(calls).pElem, element_size) @@ mem, Tail(calls),
                  element_size)

\* the mapped memory of a fill, 0 where nothing was written
MappedMemory(w) ==
    WriteAll([a \in MappedRange(w) |-> 0], w.calls, w.element_size)

\* the first byte of each element of the mapped region
ElementsOf(w) ==
    {w.pImage3D + k * w.slice_pitch + j * w.row_pitch + i * w.element_size :
        i \in 0..(w.region3[1] - 1), j \in 0..(w.region3[2] - 1),
        k \in 0..(w.region3[3] - 1)}

\* C27: After a synchronous enqueue_rawfill_image_walking has returned, every
\* element of the mapped region holds the first element_size bytes of
\* fill_color, and no byte of the mapped memory outside the elements (row
\* and slice padding) has been written.
RawFillFillsRegion ==
    (walk.pc = "unmapped" /\ walk.fn = "fillc" /\ ~walk.has_event) =>
        LET mem == MappedMemory(walk)
            bytes == 0..(walk.element_size - 1)
        IN /\ \A e \in ElementsOf(walk) : \A b \in bytes :
                 mem[e + b] = FillColor[b + 1]
           /\ \A a \in DOMAIN mem :
                 (\A e \in ElementsOf(walk) : a - e \notin bytes) => mem[a] = 0


\* C25: enqueue_barrier() and enqueue_marker(event*) make one backend call,
\* chosen by the resolved version: the call that accepts a wait list, with
\* an empty wait list, from version 120 on and the legacy call below; the
\* overloads that take a wait list make the call that accepts one and pass
\* the caller's wait list unchanged.
BarrierMarkerDispatch ==
    (IsCall /\ last.reached) =>
        LET new == VersionBefore(last) >= 120
        IN /\ last.op = "enqueue_barrier" =>
                 last.cmd = [api |-> IF new THEN "clEnqueueBarrierWithWaitList"
                                     ELSE "clEnqueueBarrier",
                             queue |-> last.pre_queue, blocking |-> NoFlag,
                             args |-> <<>>, events |-> <<>>,
                             has_event |-> FALSE]
           /\ last.op = "enqueue_marker" =>
                 last.cmd = [api |-> IF new THEN "clEnqueueMarkerWithWaitList"
                                     ELSE "clEnqueueMarker",
                             queue |-> last.pre_queue, blocking |-> NoFlag,
                             args |-> <<>>, events |-> <<>>,
                             has_event |-> last.has_event]
           /\ last.op = "enqueue_barrier(events)" =>
                 last.cmd = [api |-> "clEnqueueBarrierWithWaitList",
                             queue |-> last.pre_queue, blocking |-> NoFlag,
                             args |-> <<>>, events |-> last.events,
                             has_event |-> last.has_event]
           /\ last.op = "enqueue_marker(events)" =>
                 last.cmd = [api |-> "clEnqueueMarkerWithWaitList",
                             queue |-> last.pre_queue, blocking |-> NoFlag,
                             args |-> <<>>, events |-> last.events,
                             has_event |-> last.has_event]

\* a marker on a queue of version 120 or more, submitted
BarrierMarkerWitness ==
    /\ IsCall /\ last.op = "enqueue_marker"
    /\ last.reached /\ last.submitted
    /\ VersionBefore(last) >= 120
    /\ last.cmd.api = "clEnqueueMarkerWithWaitList"


\* C28: After any sequence of constructions, copies, moves, assignments and
\* get_version calls, every object whose native id is null has the cached
\* version 0; the source of a move construction and the source of a move
\* assignment end with native id 0 and cached version 0.
NullQueueVersionUnknown ==
    \A o \in Obj : (live[o] /\ m_queue[o] = 0) => m_version[o] = 0

\* the cached version of an object that holds a queue is 0 or the version
\* of that queue's device
CachedVersionCurrent ==
    \A o \in Obj :
        (live[o] /\ m_queue[o] # 0 /\ m_version[o] # 0) =>
            m_version[o] = DeviceVersion(QueueDevice(m_queue[o]))

\* C29: Over queues of devices of different versions, an object that holds
\* a native id and a non-zero cached version has the version of the device
\* of the queue it holds, and get_version never returns a stale version of
\* a queue the object held before.
NoStaleVersion ==
    /\ CachedVersionCurrent
    /\ (last.kind = "version" /\ last.ret # 0) =>
           /\ last.pre_queue # 0
           /\ last.ret = DeviceVersion(QueueDevice(last.pre_queue))


(***************************************************************************)
(* get_version() called from several threads on one object.                *)
(*     if (m_version == 0)                                                 *)
(*         m_version = get_device().get_version();                         *)
(*     return m_version;                                                   *)
(* m_version is a plain member: each thread's read, device query, write    *)
(* and final read are steps of their own, in any interleaving.             *)
(***************************************************************************)
ThreadFrame ==
    UNCHANGED <<live, m_queue, refs, pending, nsub, last, memory, queued,
                trace, walk>>

\* if (m_version == 0)
version_test(t, o) ==
    /\ live[o]
    /\ threads[t].pc = "start"
    /\ threads' = [threads EXCEPT ![t].seen = m_version[o],
                                  ![t].pc = IF VersionQueried(m_version[o])
                                            THEN "query" ELSE "return"]
    /\ UNCHANGED m_version
    /\ ThreadFrame

\* get_device().get_version()
version_query(t, o) ==
    /\ threads[t].pc = "query"
    /\ threads' = [threads EXCEPT
                      ![t].version = DeviceVersion(get_device(m_queue[o])),
                      ![t].queries = @ + 1,
                      ![t].pc = "write"]
    /\ UNCHANGED m_version
    /\ ThreadFrame

\* m_version = ...
version_write(t, o) ==
    /\ threads[t].pc = "write"
    /\ m_version' = [m_version EXCEPT ![o] = threads[t].version]
    /\ threads' = [threads EXCEPT ![t].wrote = TRUE, ![t].pc = "return"]
    /\ ThreadFrame

\* a return of the value the test read
Returned_seen(cached, th) == {th.seen}

\* return m_version: the member as it is now or, for a thread that has just
\* written it, the value it wrote
Returned(cached, th) == {cached} \cup (IF th.wrote THEN {th.version} ELSE {})

version_return(t, o) ==
    /\ threads[t].pc = "return"
    /\ \E r \in Returned(m_version[o], threads[t]) :
           threads' = [threads EXCEPT ![t].ret = r, ![t].pc = "done"]
    /\ UNCHANGED m_version
    /\ ThreadFrame

\* the queues of the first context, one for each device version
RaceQueues == {QueueOf(1, d) : d \in Devices}

NextRace ==
    \/ /\ Idle
       /\ \E q \in RaceQueues, r \in BOOLEAN : command_queue_raw(TheQueue, q, r)
    \/ \E t \in Threads : version_test(t, TheQueue)
    \/ \E t \in Threads : version_query(t, TheQueue)
    \/ \E t \in Threads : version_write(t, TheQueue)
    \/ \E t \in Threads : version_return(t, TheQueue)

SpecRace == Init /\ [][NextRace]_vars

\* C26: When threads call get_version at once on an object whose cached
\* version is 0, under every interleaving of their test, device query,
\* write and return every call returns the version of the device and the
\* cached version ends as that value; the device may be queried more than
\* once, and no call returns 0 or another version.
ConcurrentGetVersion ==
    live[TheQueue] =>
        LET v == DeviceVersion(QueueDevice(m_queue[TheQueue]))
        IN /\ \A t \in Threads :
                 /\ threads[t].pc = "done" => threads[t].ret = v
                 /\ threads[t].queries <= 1
           /\ m_version[TheQueue] \in {0, v}
           /\ (\E t \in Threads : threads[t].wrote) => m_version[TheQueue] = v
           /\ (\A t \in Threads : threads[t].pc = "done") =>
                  m_version[TheQueue] = v

\* every thread found the version unknown, queried the device and returned
ConcurrentGetVersionWitness ==
    /\ live[TheQueue]
    /\ \A t \in Threads :
          /\ threads[t].pc = "done"
          /\ threads[t].seen = 0
          /\ threads[t].queries = 1

====
